---- MODULE Spec2Model ----
(***************************************************************************)
(* A model of the SSI HTTP service (services/api/app): the Postgres        *)
(* tables, the Redis expiring store and the key directory as state, and    *)
(* one action per store operation of each request handler.  Requests are   *)
(* served in parallel (one task per request): a handler's steps interleave *)
(* with the steps of the other requests at every statement that talks to   *)
(* a store.                                                                *)
(***************************************************************************)
EXTENDS Integers, Sequences, FiniteSets, TLC

\* ------------------------------------------------------------------ bounds

\* Number of requests that can be in flight at the same time.
MaxReq == 2

Slots == 1..MaxReq

\* DIDs a bootstrap can produce, in the order they are produced (each
\* bootstrap derives a new DID from a freshly generated signing key).
IssuerDids == <<"did:key:zI1">>
HolderDids == <<"did:key:zH1", "did:key:zH2">>
VerifierDids == <<"did:key:zV1", "did:key:zV2">>

SeqRange(s) == { s[i] : i \in 1..Len(s) }

EmptyFn == [x \in {} |-> x]

\* Number of nonces the challenge manager draws in one behaviour.
MaxNonces == 2

\* Presentations built in a run.
MaxPresent == 1

\* The largest credential index of a status list, and the number of its
\* entries revoked in a run.
MaxIdx == 8

MaxRevoked == 2

\* Number of clock steps in one behaviour.
MaxTicks == 3

\* Key pairs generated over a run (re-bootstrapping after a reset generates
\* new ones without end).
MaxKeys == 12

\* Audiences a caller may name: the verifier's DID and another string.
Auds == { VerifierDids[1], "did:key:zOther" }

\* Bodies of issuer/issue requests (models.py:27-29 IssueRequest); subject_did
\* is any string, registered as a holder or not.
IssueRequests ==
    { [subject_did |-> HolderDids[1],
       attributes |-> [k \in {"name"} |-> "Alice"]],
      [subject_did |-> HolderDids[2],
       attributes |-> [k \in {"name", "status"} |->
                         IF k = "name" THEN "Bob" ELSE "student"]] }

\* --------------------------------------------------------------- state

VARIABLES
    issuers,      \* table issuers: the rows' DIDs in insertion order
    holders,      \* table holders
    verifiers,    \* table verifiers
    credentials,  \* table credentials: a set of rows, PRIMARY KEY (id)
    revocations,  \* table revocations: rows <<list_id, idx>>, PRIMARY KEY both
    statuslists,  \* table statuslists: list_id -> [issuer, bitmap]
    redis,        \* expiring store: key -> [val, expire_at]
    keys,         \* key directory: kid -> key
    keygen,       \* number of key pairs generated so far (names fresh keys)
    noncegen,     \* number of nonces drawn so far (names fresh nonces)
    now,          \* wall clock, seconds
    boxes,        \* presentation boxes handed out to holders
    req,          \* the requests in flight: slot -> handler position and locals
    validated,    \* history: nonce -> number of validate calls that returned (True, "ok")
    accepted,     \* history: the boxes some verify has answered "verified OK"
    republished,  \* history: the revocation entries for which a publish that
                  \*          began after the revoke has completed
    settings,     \* the process configuration (settings.py), fixed at start
    headers       \* slot -> the headers of the request FastAPI has received
                  \*         there and is resolving or has resolved

vars == << issuers, holders, verifiers, credentials, revocations, statuslists,
           redis, keys, keygen, noncegen, now, boxes, req, validated, accepted,
           republished, settings, headers >>

hist == << validated, accepted, republished >>

\* What a handler body leaves alone: the configuration and the headers.
gate == << settings, headers >>

\* What the service stores: tables, expiring store, key files, generators.
persistent == << issuers, holders, verifiers, credentials, revocations, statuslists,
            redis, keys, keygen, noncegen, now, boxes >>

\* ------------------------------------------------------- identifiers

\* statuslist.py:11  list_id = f"status:{issuer_did}"
ListIdOf(issuer_did) == << "status", issuer_did >>

\* storage.py:184  cred_id = f"cred:{issuer_did}:{index}"
CredIdOf(issuer_did, index) == << "cred", issuer_did, index >>

\* crypto.py:35,54,84  kid = f"{did}#sign" / f"{did}#agree"
Kid(did, role) == << did, role >>

\* ------------------------------------------------------- request slots

Idle == [op |-> "idle", pc |-> "idle"]

\* No request has been received in a slot.
NoRequest == [route |-> "none"]

\* settings.issuer_admin_token unset (main.py:40-42: a falsy value)
NoToken == "<unset>"

\* A header the request does not carry (Header(None)).
NoHeader == "<none>"

IsIdle(p) == req[p].op = "idle"

At(p, op, pc) == req[p].op = op /\ req[p].pc = pc

IsDone(p, op) == req[p].op = op /\ req[p].pc = "done"

\* A handler returns (or raises HTTPException / an unhandled error, which
\* FastAPI turns into a response with that status).  A detail is a tuple of
\* strings: << "challenge invalid", why >> is f"challenge invalid: {why}".
Respond(p, status, detail) ==
    [req EXCEPT ![p] = [op |-> req[p].op, pc |-> "done", loc |-> req[p].loc,
                        status |-> status, detail |-> detail]]

\* The client has received the response: the task ends.
Return(p) ==
    /\ req[p].pc = "done"
    /\ req' = [req EXCEPT ![p] = Idle]
    /\ headers' = [headers EXCEPT ![p] = NoRequest]
    /\ UNCHANGED << issuers, holders, verifiers, credentials, revocations,
                    statuslists, redis, keys, keygen, noncegen, now, boxes, hist,
                    settings >>

\* ------------------------------------------------------- key directory

\* crypto.py:14-15  gen_keypair: a new random key pair
NewKey(n) == << "key", n >>

\* did.py:5-26  generate_did_key: two fresh key pairs, saved under #sign, #agree
GenerateDidKey(did) ==
    /\ keys' = [k \in DOMAIN keys \cup {Kid(did, "sign"), Kid(did, "agree")} |->
                  IF k = Kid(did, "sign") THEN NewKey(keygen)
                  ELSE IF k = Kid(did, "agree") THEN NewKey(keygen + 1)
                  ELSE keys[k]]
    /\ keygen' = keygen + 2

\* ------------------------------------------------------------ bootstrap

\* main.py:49-51  the body of bootstrap_issuer; storage.py:74-82 save_issuer
SaveIssuer ==
    /\ Len(issuers) < Len(IssuerDids)
    /\ LET did == IssuerDids[Len(issuers) + 1] IN
         /\ GenerateDidKey(did)
         /\ issuers' = Append(issuers, did)

\* main.py:47-52 bootstrap_issuer
BootstrapIssuer ==
    /\ SaveIssuer
    /\ UNCHANGED << holders, verifiers, credentials, revocations, statuslists,
                    redis, noncegen, now, boxes, req, hist, gate >>

\* main.py:55-60 bootstrap_holder; storage.py:85-93 save_holder
BootstrapHolder ==
    /\ Len(holders) < Len(HolderDids)
    /\ LET did == HolderDids[Len(holders) + 1] IN
         /\ GenerateDidKey(did)
         /\ holders' = Append(holders, did)
    /\ UNCHANGED << issuers, verifiers, credentials, revocations, statuslists,
                    redis, noncegen, now, boxes, req, hist, gate >>

\* main.py:63-68 bootstrap_verifier; storage.py:96-104 save_verifier
BootstrapVerifier ==
    /\ Len(verifiers) < Len(VerifierDids)
    /\ LET did == VerifierDids[Len(verifiers) + 1] IN
         /\ GenerateDidKey(did)
         /\ verifiers' = Append(verifiers, did)
    /\ UNCHANGED << issuers, holders, credentials, revocations, statuslists,
                    redis, noncegen, now, boxes, req, hist, gate >>

\* ------------------------------------------------------------ issuance

\* storage.py:112-125  SELECT did, name, did_doc FROM issuers LIMIT 1
\* (the rows that query may return: without ORDER BY the row it returns is any
\* row of the table; the empty set when the table is empty)
get_default_issuer == SeqRange(issuers)

\* SELECT COALESCE(MAX((status->>'index')::int), dflt) FROM credentials
\*   WHERE status->>'list_id' = :l        (statuslist.py:29-35 and 41-47)
MaxIndex(list_id, dflt) ==
    LET idxs == { c.status.index : c \in { d \in credentials : d.status.list_id = list_id } }
    IN  IF idxs = {} THEN dflt
        ELSE CHOOSE m \in idxs : \A i \in idxs : i <= m

\* Python's `a or b` on integers: b when a is falsy (0), else a.
PyOr(a, b) == IF a = 0 THEN b ELSE a

\* statuslist.py:36  idx = (row[0] or -1) + 1
AllocIndex(row0) == PyOr(row0, -1) + 1

\* main.py:73-80  issuer_issue up to "no issuer configured"
IssueStart(p) ==
    /\ IsIdle(p)
    /\ \E body \in IssueRequests :
         IF get_default_issuer = {}
         THEN req' = [req EXCEPT ![p] =
                        [op |-> "issue", pc |-> "done", loc |-> << >>,
                         status |-> 400, detail |-> << "no issuer configured" >>]]
         ELSE \E iss \in get_default_issuer :
                req' = [req EXCEPT ![p] =
                          [op |-> "issue", pc |-> "list_select",
                           loc |-> [issuer |-> iss,
                                    subject |-> body.subject_did,
                                    attrs |-> body.attributes]]]
    /\ UNCHANGED << issuers, holders, verifiers, credentials, revocations,
                    statuslists, redis, keys, keygen, noncegen, now, boxes, hist, gate >>

\* statuslist.py:13-15  _get_or_create_list: SELECT list_id FROM statuslists
ListSelect(p) ==
    /\ req[p].op \in {"issue", "claim"} /\ req[p].pc = "list_select"
    /\ LET list_id == ListIdOf(req[p].loc.issuer) IN
         req' = [req EXCEPT ![p].pc =
                   IF list_id \in DOMAIN statuslists THEN "allocate" ELSE "list_insert"]
    /\ UNCHANGED << issuers, holders, verifiers, credentials, revocations,
                    statuslists, redis, keys, keygen, noncegen, now, boxes, hist, gate >>

\* statuslist.py:16-23  INSERT INTO statuslists ... VALUES (:l, :iss, b"");
\* list_id is the primary key: a row inserted by a concurrent request in the
\* meantime makes the INSERT fail (IntegrityError, an unhandled 500).
ListInsert(p) ==
    /\ req[p].op \in {"issue", "claim"} /\ req[p].pc = "list_insert"
    /\ LET list_id == ListIdOf(req[p].loc.issuer) IN
         IF list_id \in DOMAIN statuslists
         THEN /\ req' = Respond(p, 500, << "IntegrityError" >>)
              /\ UNCHANGED statuslists
         ELSE /\ statuslists' =
                   [l \in DOMAIN statuslists \cup {list_id} |->
                      IF l = list_id
                      THEN [issuer |-> req[p].loc.issuer, bitmap |-> << >>]
                      ELSE statuslists[l]]
              /\ req' = [req EXCEPT ![p].pc = "allocate"]
    /\ UNCHANGED << issuers, holders, verifiers, credentials, revocations,
                    redis, keys, keygen, noncegen, now, boxes, hist, gate >>

\* statuslist.py:28-37  allocate: the MAX query and the index computed from it
Allocate(p) ==
    /\ req[p].op \in {"issue", "claim"} /\ req[p].pc = "allocate"
    /\ LET list_id == ListIdOf(req[p].loc.issuer)
           row0 == MaxIndex(list_id, -1)
           l == req[p].loc
       IN  req' = [req EXCEPT ![p].pc = "create",
                              ![p].loc =
                                 [k \in DOMAIN l \cup {"list_id", "row0", "index"} |->
                                    IF k = "list_id" THEN list_id
                                    ELSE IF k = "row0" THEN row0
                                    ELSE IF k = "index" THEN AllocIndex(row0)
                                    ELSE l[k]]]
    /\ UNCHANGED << issuers, holders, verifiers, credentials, revocations,
                    statuslists, redis, keys, keygen, noncegen, now, boxes, hist, gate >>

\* storage.py:180-195  the credential create_credential builds
NewCredential(issuer_did, subject_did, attrs, list_id, index) ==
    [id |-> CredIdOf(issuer_did, index),
     issuer |-> issuer_did,
     subject |-> subject_did,
     schema |-> "example:student-id-v1",
     attrs |-> attrs,
     status |-> [list_id |-> list_id, index |-> index],
     issued_at |-> now]

\* Mutant of InsertConflicts: the table without its primary key.
InsertConflicts_NoPrimaryKey(cred) == FALSE

\* storage.py:27-36  credentials.id is the PRIMARY KEY: an INSERT of an id
\* that is already stored fails.
InsertConflicts(cred) == \E c \in credentials : c.id = cred.id

\* storage.py:180-213  create_credential: INSERT INTO credentials
CreateCredential(p) ==
    /\ req[p].op \in {"issue", "claim"} /\ req[p].pc = "create"
    /\ LET l == req[p].loc
           cred == NewCredential(l.issuer, l.subject, l.attrs, l.list_id, l.index)
       IN  IF InsertConflicts(cred)
           THEN /\ req' = Respond(p, 500, << "IntegrityError" >>)
                /\ UNCHANGED credentials
           ELSE /\ credentials' = credentials \cup {cred}
                /\ req' = [req EXCEPT ![p].pc = "sign"]
    /\ UNCHANGED << issuers, holders, verifiers, revocations, statuslists,
                    redis, keys, keygen, noncegen, now, boxes, hist, gate >>

\* crypto.py:34-50  sign_vc_jws: load the issuer's #sign key, or generate and
\* save one when the file is missing; main.py:84 returns the credential.
SignAndReturn(p) ==
    /\ req[p].op = "issue" /\ req[p].pc = "sign"
    /\ LET kid == Kid(req[p].loc.issuer, "sign") IN
         IF kid \in DOMAIN keys
         THEN UNCHANGED << keys, keygen >>
         ELSE /\ keys' = [k \in DOMAIN keys \cup {kid} |->
                            IF k = kid THEN NewKey(keygen) ELSE keys[k]]
              /\ keygen' = keygen + 1
    /\ req' = Respond(p, 200, << "ok" >>)
    /\ UNCHANGED << issuers, holders, verifiers, credentials, revocations,
                    statuslists, redis, noncegen, now, boxes, hist, gate >>

\* ------------------------------------------------------ expiring store

\* What redis.get returns for a key that is absent or has expired.
NoValue == [none |-> TRUE]

\* Mutant of RedisLive: a key that was set never expires.
RedisLive_NoExpiry(key) == key \in DOMAIN redis

\* A key set with SETEX is visible until its time to live has elapsed.
RedisLive(key) == key \in DOMAIN redis /\ now < redis[key].expire_at

RedisGet(key) == IF RedisLive(key) THEN redis[key].val ELSE NoValue

RedisSetex(key, ttl, val) ==
    [k \in DOMAIN redis \cup {key} |->
       IF k = key THEN [val |-> val, expire_at |-> now + ttl] ELSE redis[k]]

RedisDelete(key) == [k \in DOMAIN redis \ {key} |-> redis[k]]

\* oidc_like.py:14  exp = now_ts() + 300
ChallengeExp == 300

\* oidc_like.py:15  setex(key, 300, ...)
ChallengeTTL == 300

\* utils.py:13-14  now_ts; the clock advances in steps of half a challenge
\* lifetime.
TickStep == ChallengeTTL \div 2

Tick ==
    /\ now < MaxTicks * TickStep
    /\ now' = now + TickStep
    /\ UNCHANGED << issuers, holders, verifiers, credentials, revocations,
                    statuslists, redis, keys, keygen, noncegen, boxes, req, hist, gate >>

\* --------------------------------------------------- challenge manager

\* oidc_like.py:13  nonce = b64url(os.urandom(12)): a value not drawn before
NewNonce(n) == << "nonce", n >>

\* A nonce no challenge was ever issued for.
UnknownNonce == NewNonce(-1)

\* oidc_like.py:15,19  the key f"ch:{nonce}"
ChKey(nonce) == << "ch", nonce >>

\* oidc_like.py:12-16  ChallengeManager.issue: the store after SETEX
ChallengeIssued(aud) ==
    RedisSetex(ChKey(NewNonce(noncegen)), ChallengeTTL,
               [aud |-> aud, exp |-> now + ChallengeExp])

\* main.py:99-102  verifier_challenge
Challenge(p, aud) ==
    /\ IsIdle(p)
    /\ noncegen < MaxNonces
    /\ redis' = ChallengeIssued(aud)
    /\ noncegen' = noncegen + 1
    /\ req' = [req EXCEPT ![p] =
                 [op |-> "challenge", pc |-> "done",
                  loc |-> [nonce |-> NewNonce(noncegen), aud |-> aud,
                           exp |-> now + ChallengeExp],
                  status |-> 200, detail |-> << "ok" >>]]
    /\ UNCHANGED << issuers, holders, verifiers, credentials, revocations,
                    statuslists, keys, keygen, now, boxes, hist, gate >>

\* oidc_like.py:20-24  validate, the checks that need no clock
ValidateEarly(value, aud) ==
    IF value = NoValue THEN "nonce not found"
    ELSE IF value.aud # aud THEN "aud mismatch"
    ELSE "continue"

\* oidc_like.py:25-28  validate, the expiry check
ValidateLate(value, t) == IF value.exp < t THEN "expired" ELSE "ok"

\* Mutant of AfterValidate: the nonce is never deleted.
AfterValidate_NeverDelete(key, why) == redis

\* Mutant of AfterValidate: the nonce is deleted whatever the outcome.
AfterValidate_DeleteAlways(key, why) == RedisDelete(key)

\* oidc_like.py:25-28  the store after validate's last checks: deleted on
\* success only
AfterValidate(key, why) == IF why = "ok" THEN RedisDelete(key) ELSE redis

\* validate returns (ok, why) to its caller: to the caller of the challenge
\* manager, or into verify_and_extract (oidc_like.py:69-73), which raises
\* HTTPException(400, f"challenge invalid: {why}") when not ok.
ValidateReturn(p, ok, why) ==
    IF req[p].op = "validate"
    THEN [req EXCEPT ![p] = [op |-> "validate", pc |-> "done", loc |-> req[p].loc,
                             ok |-> ok, why |-> why]]
    ELSE IF ok
         THEN [req EXCEPT ![p].pc = "revcheck"]
         ELSE Respond(p, 400, << "challenge invalid", why >>)

\* A caller invokes ChallengeManager.validate(nonce, aud).
ValidateStart(p, nonce, aud) ==
    /\ IsIdle(p)
    /\ req' = [req EXCEPT ![p] =
                 [op |-> "validate", pc |-> "v_get",
                  loc |-> [nonce |-> nonce, aud |-> aud, value |-> NoValue]]]
    /\ UNCHANGED << issuers, holders, verifiers, credentials, revocations,
                    statuslists, redis, keys, keygen, noncegen, now, boxes, hist, gate >>

\* oidc_like.py:19-24  value = redis.get(f"ch:{nonce}") and the checks on it
ValidateGet(p) ==
    /\ req[p].op \in {"validate", "verify"} /\ req[p].pc = "v_get"
    /\ LET value == RedisGet(ChKey(req[p].loc.nonce))
           early == ValidateEarly(value, req[p].loc.aud)
       IN  IF early = "continue"
           THEN req' = [req EXCEPT ![p].pc = "v_check", ![p].loc.value = value]
           ELSE req' = ValidateReturn(p, FALSE, early)
    /\ UNCHANGED << issuers, holders, verifiers, credentials, revocations,
                    statuslists, redis, keys, keygen, noncegen, now, boxes, hist, gate >>

\* oidc_like.py:25-28  the expiry check, redis.delete and the return
ValidateFinish(p) ==
    /\ req[p].op \in {"validate", "verify"} /\ req[p].pc = "v_check"
    /\ LET nonce == req[p].loc.nonce
           why == ValidateLate(req[p].loc.value, now)
       IN  /\ redis' = AfterValidate(ChKey(nonce), why)
           /\ req' = ValidateReturn(p, why = "ok", why)
           /\ validated' =
                IF why # "ok" THEN validated
                ELSE [n \in DOMAIN validated \cup {nonce} |->
                        IF n = nonce
                        THEN (IF n \in DOMAIN validated THEN validated[n] ELSE 0) + 1
                        ELSE validated[n]]
    /\ UNCHANGED << issuers, holders, verifiers, credentials, revocations,
                    statuslists, keys, keygen, noncegen, now, boxes, accepted,
                    republished, gate >>

\* ---------------------------------------------------------- status list

\* 1 << bit
Pow2(n) == IF n = 0 THEN 1 ELSE IF n = 1 THEN 2 ELSE IF n = 2 THEN 4
           ELSE IF n = 3 THEN 8 ELSE IF n = 4 THEN 16 ELSE IF n = 5 THEN 32
           ELSE IF n = 6 THEN 64 ELSE 128

\* byte & (1 << bit) != 0
BitIsSet(byte, bit) == (byte \div Pow2(bit)) % 2 = 1

\* statuslist.py:56-57  byte = idx // 8; bit = idx % 8  (the sequence of bytes
\* is indexed from 1 here)
ByteOf(idx) == idx \div 8

BitOf(idx) == idx % 8

\* Mutant of SetBit: the bits of a byte packed from the high end.
SetBit_BigEndian(bitmap, idx) ==
    [bitmap EXCEPT ![ByteOf(idx) + 1] =
        IF BitIsSet(@, 7 - BitOf(idx)) THEN @ ELSE @ + Pow2(7 - BitOf(idx))]

\* statuslist.py:58  bitmap[byte] |= 1 << bit
SetBit(bitmap, idx) ==
    [bitmap EXCEPT ![ByteOf(idx) + 1] =
        IF BitIsSet(@, BitOf(idx)) THEN @ ELSE @ + Pow2(BitOf(idx))]

\* Mutant of ZeroBitmap: the fresh bitmap has every bit set.
ZeroBitmap_Ones(mx) == [i \in 1..((mx + 1 + 7) \div 8) |-> 255]

\* statuslist.py:50-52  bytearray(math.ceil((mx + 1) / 8))
ZeroBitmap(mx) == [i \in 1..((mx + 1 + 7) \div 8) |-> 0]

\* What the loop yields when bitmap[byte] raises IndexError.
IndexError == << -1 >>

\* statuslist.py:53-58  the loop over the revoked indices; bitmap[byte] raises
\* IndexError for a byte beyond the bitmap.
RECURSIVE BuildBitmap(_, _)
BuildBitmap(bitmap, idxs) ==
    IF idxs = {} THEN bitmap
    ELSE LET idx == CHOOSE i \in idxs : \A j \in idxs : i <= j IN
           IF ByteOf(idx) >= Len(bitmap) THEN IndexError
           ELSE BuildBitmap(SetBit(bitmap, idx), idxs \ {idx})

\* statuslist.py:64  bytes(bitmap).hex(): two lower-case digits per byte
HexDigits == << "0", "1", "2", "3", "4", "5", "6", "7",
                "8", "9", "a", "b", "c", "d", "e", "f" >>

Hex(bitmap) ==
    [i \in 1..Len(bitmap) |->
       << HexDigits[(bitmap[i] \div 16) + 1], HexDigits[(bitmap[i] % 16) + 1] >>]

\* statuslist.py:66-78  is_revoked: reads the stored bitmap
is_revoked(list_id, idx) ==
    IF list_id \notin DOMAIN statuslists THEN FALSE
    ELSE LET bitmap == statuslists[list_id].bitmap IN
           IF ByteOf(idx) >= Len(bitmap) THEN FALSE
           ELSE BitIsSet(bitmap[ByteOf(idx) + 1], BitOf(idx))

\* Mutant of RevokedIn: the query returns no row.
RevokedIn_NoRows(list_id) == {}

\* SELECT idx FROM revocations WHERE list_id = :l   (statuslist.py:53-55)
RevokedIn(list_id) == { r[2] : r \in { e \in revocations : e[1] = list_id } }

\* The status lists a caller asks for (GET /v1/issuer/statuslist/{list_id}).
PublishTargets == { ListIdOf(IssuerDids[i]) : i \in 1..Len(IssuerDids) }

\* main.py:87-90 issuer_status_list; statuslist.py:40-52 publish: the MAX
\* query and the size of the bitmap
PublishStart(p, list_id) ==
    /\ IsIdle(p)
    /\ req' = [req EXCEPT ![p] =
                 [op |-> "publish", pc |-> "p_read",
                  loc |-> [list_id |-> list_id,
                           mx |-> MaxIndex(list_id, 0),
                           bitmap |-> << >>,
                           data |-> << >>,
                           r0 |-> { e \in revocations : e[1] = list_id }]]]
    /\ UNCHANGED << issuers, holders, verifiers, credentials, revocations,
                    statuslists, redis, keys, keygen, noncegen, now, boxes, hist, gate >>

\* statuslist.py:52-58  the revocations query and the bitmap built from it
PublishRead(p) ==
    /\ req[p].op = "publish" /\ req[p].pc = "p_read"
    /\ LET bitmap == BuildBitmap(ZeroBitmap(req[p].loc.mx),
                                 RevokedIn(req[p].loc.list_id))
       IN  IF bitmap = IndexError
           THEN req' = Respond(p, 500, << "IndexError" >>)
           ELSE req' = [req EXCEPT ![p].pc = "p_write",
                                   ![p].loc.bitmap = bitmap,
                                   ![p].loc.data = Hex(bitmap)]
    /\ UNCHANGED << issuers, holders, verifiers, credentials, revocations,
                    statuslists, redis, keys, keygen, noncegen, now, boxes, hist, gate >>

\* statuslist.py:59-64  UPDATE statuslists SET bitmap = :bm WHERE list_id = :l
\* (no row, no update), and the document returned
PublishWrite(p) ==
    /\ req[p].op = "publish" /\ req[p].pc = "p_write"
    /\ LET l == req[p].loc.list_id IN
         /\ statuslists' =
              IF l \in DOMAIN statuslists
              THEN [statuslists EXCEPT ![l].bitmap = req[p].loc.bitmap]
              ELSE statuslists
         /\ republished' = republished \cup req[p].loc.r0
    /\ req' = Respond(p, 200, << "ok" >>)
    /\ UNCHANGED << issuers, holders, verifiers, credentials, revocations,
                    redis, keys, keygen, noncegen, now, boxes, validated, accepted, gate >>

\* ----------------------------------------------------------- revocation

\* A cred_id that names no credential.
UnknownCredId == CredIdOf("did:key:zOther", 0)

\* Mutant of InsertRevocation: a plain INSERT, which the primary key
\* (list_id, idx) makes fail for an entry that is already there.
InsertRevocation_NoOnConflict(list_id, idx) ==
    [rows |-> revocations \cup { << list_id, idx >> },
     error |-> << list_id, idx >> \in revocations]

\* storage.py:251-256  INSERT INTO revocations (list_id, idx) VALUES (:l, :i)
\* ON CONFLICT DO NOTHING: the table afterwards, and whether the statement
\* raised
InsertRevocation(list_id, idx) ==
    [rows |-> revocations \cup { << list_id, idx >> }, error |-> FALSE]

\* Mutant of StatusOf: the query matches every credential.
StatusOf_AnyId(cred_id) == credentials

\* storage.py:241-247  SELECT status->>'list_id', (status->>'index')::int
\* FROM credentials WHERE id = :id   (the rows it matches)
StatusOf(cred_id) == { c \in credentials : c.id = cred_id }

\* main.py:93-96 issuer_revoke; storage.py:239-257 revoke (one transaction)
Revoke(p, cred_id) ==
    /\ IsIdle(p)
    /\ LET rows == StatusOf(cred_id) IN
         IF rows = {}
         THEN /\ req' = [req EXCEPT ![p] =
                           [op |-> "revoke", pc |-> "done",
                            loc |-> [cred_id |-> cred_id, already |-> FALSE],
                            status |-> 404, detail |-> << "credential not found" >>]]
              /\ UNCHANGED revocations
         ELSE LET row == CHOOSE c \in rows : TRUE
                  ins == InsertRevocation(row.status.list_id, row.status.index)
                  loc == [cred_id |-> cred_id,
                          already |-> << row.status.list_id, row.status.index >>
                                        \in revocations]
              IN  IF ins.error
                  THEN /\ req' = [req EXCEPT ![p] =
                                    [op |-> "revoke", pc |-> "done", loc |-> loc,
                                     status |-> 500, detail |-> << "IntegrityError" >>]]
                       /\ UNCHANGED revocations
                  ELSE /\ req' = [req EXCEPT ![p] =
                                    [op |-> "revoke", pc |-> "done", loc |-> loc,
                                     status |-> 200, detail |-> << "ok" >>]]
                       /\ revocations' = ins.rows
    /\ UNCHANGED << issuers, holders, verifiers, credentials, statuslists,
                    redis, keys, keygen, noncegen, now, boxes, hist, gate >>

\* --------------------------------------------------------- presentation

\* Bodies of holder/present requests (models.py:53-57 PresentRequest).
RevealChoices == { << "name" >>, << "status", "gpa" >> }

\* storage.py:144-159 get_holder_by_did, 162-177 get_verifier_by_did
get_holder_by_did(did) == did \in SeqRange(holders)

get_verifier_by_did(did) == did \in SeqRange(verifiers)

\* storage.py:216-236 get_credential: the rows with that id
get_credential(cred_id) == { c \in credentials : c.id = cred_id }

\* Mutant of Revealed: every attribute is revealed.
Revealed_All(attrs, reveal_fields) == attrs

\* oidc_like.py:36-40  the revealed attributes
Revealed(attrs, reveal_fields) ==
    [k \in { f \in SeqRange(reveal_fields) : f \in DOMAIN attrs } |-> attrs[k]]

\* oidc_like.py:44  "exp": now_ts() + 300
PresentationExp == 300

\* oidc_like.py:41-59 and crypto.py:53-72  the payload, encrypted to `key`
NewBox(cred, reveal_fields, verifier_did, nonce, key) ==
    [aud |-> verifier_did,
     nonce |-> nonce,
     cred |-> [id |-> cred.id, issuer |-> cred.issuer, subject |-> cred.subject,
               schema |-> cred.schema, status |-> cred.status,
               revealed |-> Revealed(cred.attrs, reveal_fields)],
     exp |-> now + PresentationExp,
     key |-> key,
     after_republish |-> << cred.status.list_id, cred.status.index >> \in republished]

\* Mutant of OwnedBy: any stored credential may be presented.
OwnedBy_AnySubject(creds, holder_did) == creds # {}

\* main.py:128-129  the credential exists and its subject is the holder
OwnedBy(creds, holder_did) ==
    creds # {} /\ \A c \in creds : c.subject = holder_did

\* main.py:123-140 holder_present; oidc_like.py:33-64 build (which issues the
\* nonce before it loads the verifier's #agree key)
Present(p, holder_did, cred_id, reveal_fields, verifier_did) ==
    /\ IsIdle(p)
    /\ LET body == [holder_did |-> holder_did, cred_id |-> cred_id,
                    reveal_fields |-> reveal_fields, verifier_did |-> verifier_did]
           fail(status, detail) ==
               [req EXCEPT ![p] = [op |-> "present", pc |-> "done", loc |-> body,
                                   status |-> status, detail |-> detail]]
           creds == get_credential(cred_id)
       IN  IF ~get_holder_by_did(holder_did) \/ ~get_verifier_by_did(verifier_did)
           THEN /\ req' = fail(400, << "unknown holder or verifier" >>)
                /\ UNCHANGED << redis, noncegen, boxes >>
           ELSE IF ~OwnedBy(creds, holder_did)
           THEN /\ req' = fail(400, << "credential not found or not owned by holder" >>)
                /\ UNCHANGED << redis, noncegen, boxes >>
           ELSE /\ noncegen < MaxNonces /\ Cardinality(boxes) < MaxPresent
                /\ redis' = ChallengeIssued(verifier_did)
                /\ noncegen' = noncegen + 1
                /\ IF Kid(verifier_did, "agree") \notin DOMAIN keys
                   THEN /\ req' = fail(500, << "no agreement key available" >>)
                        /\ UNCHANGED boxes
                   ELSE LET cred == CHOOSE c \in creds : TRUE
                            box == NewBox(cred, reveal_fields, verifier_did,
                                          NewNonce(noncegen),
                                          keys[Kid(verifier_did, "agree")])
                        IN  /\ boxes' = boxes \cup {box}
                            /\ req' = [req EXCEPT ![p] =
                                         [op |-> "present", pc |-> "done",
                                          loc |-> [holder_did |-> holder_did,
                                                   cred_id |-> cred_id,
                                                   reveal_fields |-> reveal_fields,
                                                   verifier_did |-> verifier_did,
                                                   box |-> box],
                                          status |-> 200, detail |-> << "ok" >>]]
    /\ UNCHANGED << issuers, holders, verifiers, credentials, revocations,
                    statuslists, keys, keygen, now, hist, gate >>

\* --------------------------------------------------------------- offers

\* main.py:178  ttl = req.ttl_seconds or 600
DefaultOfferTTL == 600

\* Bodies of issuer/offers requests (models.py:80-84 IssuanceOfferRequest);
\* ttl_seconds 0 stands for an absent or zero ttl_seconds, both falsy.
OfferRequests ==
    { [challenge |-> "challenge-123", issuer_did |-> IssuerDids[1],
       claims |-> [k \in {"name", "over18"} |-> k = "name"], ttl_seconds |-> 300],
      [challenge |-> "challenge-123", issuer_did |-> "did:key:zOther",
       claims |-> [k \in {"name", "over18"} |-> k = "name"], ttl_seconds |-> 0] }

\* Bodies of wallet/claim requests (models.py:93-96 WalletClaimRequest)
ClaimRequests ==
    { [challenge |-> "challenge-123", holder_did |-> HolderDids[1],
       attributes |-> [k \in {"name"} |-> "Wallet User"]],
      [challenge |-> "challenge-123", holder_did |-> HolderDids[1],
       attributes |-> [k \in {"over18"} |-> "yes"]],
      [challenge |-> "challenge-123", holder_did |-> "did:key:zOther",
       attributes |-> [k \in {"name"} |-> "Wallet User"]] }

\* main.py:179,185,209  the key f"offer:{challenge}"
OfferKey(challenge) == << "offer", challenge >>

\* main.py:175-180 issuer_register_offer
RegisterOffer(p, offer) ==
    /\ IsIdle(p)
    /\ redis' = RedisSetex(OfferKey(offer.challenge),
                           PyOr(offer.ttl_seconds, DefaultOfferTTL), offer)
    /\ req' = [req EXCEPT ![p] =
                 [op |-> "offer", pc |-> "done", loc |-> [offer |-> offer],
                  status |-> 200, detail |-> << "ok" >>]]
    /\ UNCHANGED << issuers, holders, verifiers, credentials, revocations,
                    statuslists, keys, keygen, noncegen, now, boxes, hist, gate >>

\* storage.get_issuer_by_did: the issuers row with that DID, if any
get_issuer_by_did(did) == { i \in SeqRange(issuers) : i = did }

\* Mutant of MissingClaims: every claim of the offer is required.
MissingClaims_AllRequired(claims, attributes) ==
    { k \in DOMAIN claims : k \notin DOMAIN attributes }

\* main.py:196  the claims flagged true that the request's attributes lack
MissingClaims(claims, attributes) ==
    { k \in DOMAIN claims : claims[k] /\ k \notin DOMAIN attributes }

\* main.py:185-187 wallet_claim: cached = redis.get(f"offer:{challenge}")
ClaimStart(p, body) ==
    /\ IsIdle(p)
    /\ LET cached == RedisGet(OfferKey(body.challenge))
           loc == [challenge |-> body.challenge, holder_did |-> body.holder_did,
                   attributes |-> body.attributes, offer |-> cached]
       IN  IF cached = NoValue
           THEN req' = [req EXCEPT ![p] =
                          [op |-> "claim", pc |-> "done", loc |-> loc,
                           status |-> 404,
                           detail |-> << "offer not found or expired" >>]]
           ELSE req' = [req EXCEPT ![p] =
                          [op |-> "claim", pc |-> "c_check", loc |-> loc]]
    /\ UNCHANGED << issuers, holders, verifiers, credentials, revocations,
                    statuslists, redis, keys, keygen, noncegen, now, boxes, hist,
                    gate >>

\* main.py:188-198 wallet_claim: the issuer and holder lookups and the
\* required claims
ClaimCheck(p) ==
    /\ req[p].op = "claim" /\ req[p].pc = "c_check"
    /\ LET l == req[p].loc
           missing == MissingClaims(l.offer.claims, l.attributes)
       IN  IF get_issuer_by_did(l.offer.issuer_did) = {}
           THEN req' = Respond(p, 400, << "issuer referenced in offer not available" >>)
           ELSE IF ~get_holder_by_did(l.holder_did)
           THEN req' = Respond(p, 400, << "holder not registered" >>)
           ELSE IF missing # {}
           THEN req' = Respond(p, 400, << "missing attributes for claims", missing >>)
           ELSE req' = [req EXCEPT ![p].pc = "list_select",
                                   ![p].loc =
                                      [challenge |-> l.challenge,
                                       holder_did |-> l.holder_did,
                                       attributes |-> l.attributes,
                                       offer |-> l.offer,
                                       issuer |-> l.offer.issuer_did,
                                       subject |-> l.holder_did,
                                       attrs |-> l.attributes]]
    /\ UNCHANGED << issuers, holders, verifiers, credentials, revocations,
                    statuslists, redis, keys, keygen, noncegen, now, boxes, hist,
                    gate >>

\* main.py:208 wallet_claim; crypto.py:34-50 sign_vc_jws: load the issuer's
\* #sign key, or generate and save one when the file is missing
ClaimSign(p) ==
    /\ req[p].op = "claim" /\ req[p].pc = "sign"
    /\ LET kid == Kid(req[p].loc.issuer, "sign") IN
         IF kid \in DOMAIN keys
         THEN UNCHANGED << keys, keygen >>
         ELSE /\ keys' = [k \in DOMAIN keys \cup {kid} |->
                            IF k = kid THEN NewKey(keygen) ELSE keys[k]]
              /\ keygen' = keygen + 1
    /\ req' = [req EXCEPT ![p].pc = "consume"]
    /\ UNCHANGED << issuers, holders, verifiers, credentials, revocations,
                    statuslists, redis, noncegen, now, boxes, hist, gate >>

\* Mutant of OfferConsumed: the offer is left in the store.
OfferConsumed_Kept(challenge) == redis

\* main.py:209  redis.delete(f"offer:{challenge}")
OfferConsumed(challenge) == RedisDelete(OfferKey(challenge))

\* main.py:209-210 wallet_claim: the offer is deleted and the credential
\* returned
ClaimConsume(p) ==
    /\ req[p].op = "claim" /\ req[p].pc = "consume"
    /\ redis' = OfferConsumed(req[p].loc.challenge)
    /\ req' = Respond(p, 200, << "ok" >>)
    /\ UNCHANGED << issuers, holders, verifiers, credentials, revocations,
                    statuslists, keys, keygen, noncegen, now, boxes, hist, gate >>

\* --------------------------------------------------------- verification

\* storage.py:128-141  SELECT did, label, did_doc FROM verifiers LIMIT 1
\* (any row of the table, as for get_default_issuer)
get_default_verifier == SeqRange(verifiers)

\* utils.py:41-42  verify_merkle_proofs
verify_merkle_proofs(cred) == TRUE

\* main.py:105-119 verifier_verify up to verify_and_extract; crypto.py:75-103
\* jwe_decrypt_for_did: load the default verifier's #agree key and decrypt; a
\* box encrypted to another key does not decrypt (jwcrypto raises, an
\* unhandled 500).  When load_key finds no file (crypto.py:86-88) a key pair
\* is generated; saving it is a later step.
VerifyStart(p, box) ==
    /\ IsIdle(p)
    /\ LET locOf(v) == [box |-> box, nonce |-> box.nonce, aud |-> box.aud,
                        value |-> NoValue, after_accept |-> box \in accepted,
                        verifier |-> v]
           failOf(v, status, detail) ==
               [req EXCEPT ![p] = [op |-> "verify", pc |-> "done", loc |-> locOf(v),
                                   status |-> status, detail |-> detail]]
       IN  IF get_default_verifier = {}
           THEN /\ req' = failOf(NoHeader, 400, << "no verifier configured" >>)
                /\ UNCHANGED keygen
           ELSE \E verifier \in get_default_verifier :
                  LET kid == Kid(verifier, "agree")
                      loc == locOf(verifier)
                      fail(status, detail) == failOf(verifier, status, detail)
                  IN
                    IF kid \in DOMAIN keys
                    THEN /\ UNCHANGED keygen
                         /\ IF keys[kid] = box.key
                            THEN req' = [req EXCEPT ![p] =
                                           [op |-> "verify", pc |-> "v_get", loc |-> loc]]
                            ELSE req' = fail(500, << "decryption failed" >>)
                    ELSE /\ keygen' = keygen + 1
                         /\ req' = [req EXCEPT ![p] =
                                      [op |-> "verify", pc |-> "v_keygen",
                                       loc |-> [k \in DOMAIN loc \cup {"kid", "key"} |->
                                                  IF k = "kid" THEN kid
                                                  ELSE IF k = "key" THEN NewKey(keygen)
                                                  ELSE loc[k]]]]
    /\ UNCHANGED << issuers, holders, verifiers, credentials, revocations,
                    statuslists, redis, keys, noncegen, now, boxes, hist, gate >>

\* Mutant of save_key: create-if-absent, the file that exists is kept.
save_key_IfAbsent(kid, key) ==
    IF kid \in DOMAIN keys THEN keys
    ELSE [k \in DOMAIN keys \cup {kid} |-> IF k = kid THEN key ELSE keys[k]]

\* crypto.py:17-20  save_key: open(..., "w") creates the file or truncates
\* the one that exists, then writes the key
save_key(kid, key) ==
    [k \in DOMAIN keys \cup {kid} |-> IF k = kid THEN key ELSE keys[k]]

\* crypto.py:89-103  jwe_decrypt_for_did after generating: save the key and
\* decrypt with it
VerifyKeygen(p) ==
    /\ At(p, "verify", "v_keygen")
    /\ keys' = save_key(req[p].loc.kid, req[p].loc.key)
    /\ IF req[p].loc.key = req[p].loc.box.key
       THEN req' = [req EXCEPT ![p].pc = "v_get"]
       ELSE req' = Respond(p, 500, << "decryption failed" >>)
    /\ UNCHANGED << issuers, holders, verifiers, credentials, revocations,
                    statuslists, redis, keygen, noncegen, now, boxes, hist, gate >>

\* oidc_like.py:75-91  verify_and_extract after the challenge: the revocation
\* check, the Merkle proof check and the answer
RevocationCheck(p) ==
    /\ req[p].op = "verify" /\ req[p].pc = "revcheck"
    /\ LET cred == req[p].loc.box.cred IN
         IF is_revoked(cred.status.list_id, cred.status.index)
         THEN /\ req' = Respond(p, 400, << "credential revoked" >>)
              /\ UNCHANGED accepted
         ELSE IF ~verify_merkle_proofs(cred)
         THEN /\ req' = Respond(p, 400, << "merkle proof failed" >>)
              /\ UNCHANGED accepted
         ELSE /\ req' = Respond(p, 200, << "verified OK" >>)
              /\ accepted' = accepted \cup { req[p].loc.box }
    /\ UNCHANGED << issuers, holders, verifiers, credentials, revocations,
                    statuslists, redis, keys, keygen, noncegen, now, boxes,
                    validated, republished, gate >>

\* ------------------------------------------------- administration

\* The routes declared with Depends(require_admin) (main.py:48,76,94,155,176)
AdminRoutes == { "bootstrap_issuer", "issue", "revoke", "offer", "reset" }

\* The value ISSUER_ADMIN_TOKEN configures.
AdminToken == "secret"

\* The X-Admin-Token and Idempotency-Key headers a request may carry.
HeaderChoices ==
    [ token : { NoHeader, AdminToken, "wrong" }, idem : { NoHeader, "idem-1" } ]

\* What a dependency yields when it raises nothing.
Pass == [status |-> 0, detail |-> << >>]

\* Mutant of get_idem_key: the header is optional.
get_idem_key_Optional(hdr) == Pass

\* storage.py:68-71 get_idem_key
get_idem_key(hdr) ==
    IF hdr.idem = NoHeader
    THEN [status |-> 428, detail |-> << "Idempotency-Key header required" >>]
    ELSE Pass

\* Mutant of require_admin: the token is never compared.
require_admin_Open(hdr) == Pass

\* main.py:39-44 require_admin
require_admin(hdr) ==
    IF settings.issuer_admin_token = NoToken THEN Pass
    ELSE IF hdr.token # settings.issuer_admin_token
    THEN [status |-> 401, detail |-> << "invalid admin token" >>]
    ELSE Pass

\* FastAPI solves a route's dependencies in the order of the handler's
\* parameters and answers with the first HTTPException: issuer_issue declares
\* idem_key before require_admin (main.py:73-77), the other admin routes
\* declare require_admin alone.
Dependencies(route, hdr) ==
    IF route = "issue" /\ get_idem_key(hdr) # Pass THEN get_idem_key(hdr)
    ELSE IF route \in AdminRoutes THEN require_admin(hdr)
    ELSE Pass

\* A request for an admin route arrives in a free slot: its dependencies are
\* solved before the handler body runs.  A rejected request has its response;
\* an admitted one waits for its body.
Receive(p, route, hdr) ==
    /\ IsIdle(p) /\ headers[p] = NoRequest
    /\ headers' = [headers EXCEPT ![p] =
                     [route |-> route, token |-> hdr.token, idem |-> hdr.idem]]
    /\ LET d == Dependencies(route, hdr) IN
         IF d = Pass THEN UNCHANGED req
         ELSE req' = [req EXCEPT ![p] =
                        [op |-> route, pc |-> "done", loc |-> << >>,
                         status |-> d.status, detail |-> d.detail]]
    /\ UNCHANGED << issuers, holders, verifiers, credentials, revocations,
                    statuslists, redis, keys, keygen, noncegen, now, boxes, hist,
                    settings >>

\* The request in slot p passed the dependencies of route and has not started.
Admitted(p, route) == IsIdle(p) /\ headers[p].route = route

\* main.py:47-52 bootstrap_issuer as a request in a slot
BootstrapIssuerRequest(p) ==
    /\ Admitted(p, "bootstrap_issuer")
    /\ SaveIssuer
    /\ req' = [req EXCEPT ![p] =
                 [op |-> "bootstrap_issuer", pc |-> "done", loc |-> << >>,
                  status |-> 200, detail |-> << "ok" >>]]
    /\ UNCHANGED << holders, verifiers, credentials, revocations, statuslists,
                    redis, noncegen, now, boxes, hist, gate >>

\* storage.reset_state: truncate all tables (the rows a TRUNCATE leaves)
reset_state ==
    [issuers |-> << >>, holders |-> << >>, verifiers |-> << >>,
     credentials |-> {}, revocations |-> {}, statuslists |-> EmptyFn]

\* main.py:154-156 admin_reset: storage.reset_state(Session)
ResetStart(p) ==
    /\ IsIdle(p)
    /\ issuers' = reset_state.issuers
    /\ holders' = reset_state.holders
    /\ verifiers' = reset_state.verifiers
    /\ credentials' = reset_state.credentials
    /\ revocations' = reset_state.revocations
    /\ statuslists' = reset_state.statuslists
    /\ req' = [req EXCEPT ![p] = [op |-> "reset", pc |-> "flush", loc |-> << >>]]
    /\ UNCHANGED << redis, keys, keygen, noncegen, now, boxes, hist, gate >>

\* Mutant of FlushDb: the expiring store is left as it is.
FlushDb_Keep == redis

\* main.py:157  redis.flushdb()
FlushDb == EmptyFn

ResetFlush(p) ==
    /\ At(p, "reset", "flush")
    /\ redis' = FlushDb
    /\ req' = [req EXCEPT ![p].pc = "unlink"]
    /\ UNCHANGED << issuers, holders, verifiers, credentials, revocations,
                    statuslists, keys, keygen, noncegen, now, boxes, hist, gate >>

\* Mutant of UnlinkKeys: the key files are left in place.
UnlinkKeys_Keep == keys

\* main.py:158-165  every *.json file of the key directory is unlinked
UnlinkKeys == EmptyFn

\* main.py:158-166  the unlink loop and the answer
ResetUnlink(p) ==
    /\ At(p, "reset", "unlink")
    /\ keys' = UnlinkKeys
    /\ req' = Respond(p, 200, << "ok" >>)
    /\ UNCHANGED << issuers, holders, verifiers, credentials, revocations,
                    statuslists, redis, keygen, noncegen, now, boxes, hist, gate >>

\* ---------------------------------------------------- issuance claims

\* An issuance that has run allocate holds the index it obtained.
HasIndex(p) ==
    /\ req[p].op \in {"issue", "claim"}
    /\ req[p].pc \in {"create", "sign", "done"}
    /\ "index" \in DOMAIN req[p].loc

\* C1: issuances of the same issuer that are in flight together never hold
\* the same status index from allocate (N concurrent issuances on an issuer
\* without credentials obtain N distinct indices, 0..N-1).
C1_ConcurrentIndicesDistinct ==
    \A p, q \in Slots :
        (p # q /\ HasIndex(p) /\ HasIndex(q)
           /\ req[p].loc.list_id = req[q].loc.list_id)
        => req[p].loc.index # req[q].loc.index

\* C2: with no other request in flight, allocate returns 0 for a list without
\* credentials and otherwise the list's maximum stored index plus one, for
\* every value of that maximum, 0 included.
C2_AllocateReturnsMaxPlusOne ==
    \A p \in Slots :
        (HasIndex(p) /\ req[p].pc = "create")
        => req[p].loc.index =
             (IF \E c \in credentials : c.status.list_id = req[p].loc.list_id
              THEN MaxIndex(req[p].loc.list_id, 0) + 1
              ELSE 0)

\* C3: no two stored credentials have the same id, and no two share the same
\* (status.list_id, status.index) pair.
C3_CredentialsUnique ==
    \A c, d \in credentials :
        /\ c.id = d.id => c = d
        /\ c.status = d.status => c = d

\* C3 witness: an issuance was refused by the primary key while a different
\* credential with the same id is stored.
C3_Witness ==
    \E p \in Slots : \E c \in credentials :
        /\ IsDone(p, "issue") /\ req[p].status = 500
        /\ "index" \in DOMAIN req[p].loc
        /\ c.id = CredIdOf(req[p].loc.issuer, req[p].loc.index)
        /\ c.subject # req[p].loc.subject

\* ------------------------------------------------------ specification

Init ==
    /\ issuers = << >>
    /\ holders = << >>
    /\ verifiers = << >>
    /\ credentials = {}
    /\ revocations = {}
    /\ statuslists = EmptyFn
    /\ redis = EmptyFn
    /\ keys = EmptyFn
    /\ keygen = 0
    /\ noncegen = 0
    /\ now = 0
    /\ boxes = {}
    /\ req = [p \in Slots |-> Idle]
    /\ validated = EmptyFn
    /\ accepted = {}
    /\ republished = {}
    /\ settings = [issuer_admin_token |-> NoToken]
    /\ headers = [p \in Slots |-> NoRequest]

Next ==
    \/ BootstrapIssuer
    \/ BootstrapHolder
    \/ BootstrapVerifier
    \/ \E p \in Slots : IssueStart(p)
    \/ \E p \in Slots : ListSelect(p)
    \/ \E p \in Slots : ListInsert(p)
    \/ \E p \in Slots : Allocate(p)
    \/ \E p \in Slots : CreateCredential(p)
    \/ \E p \in Slots : SignAndReturn(p)
    \/ \E p \in Slots : Return(p)

Spec == Init /\ [][Next]_vars

\* The same system serving one request at a time (no concurrency): a request
\* starts only when no other request is in flight.
AllIdle == \A p \in Slots : IsIdle(p)

NextSeq ==
    \/ AllIdle /\ BootstrapIssuer
    \/ AllIdle /\ BootstrapHolder
    \/ AllIdle /\ BootstrapVerifier
    \/ \E p \in Slots : AllIdle /\ IssueStart(p)
    \/ \E p \in Slots : ListSelect(p)
    \/ \E p \in Slots : ListInsert(p)
    \/ \E p \in Slots : Allocate(p)
    \/ \E p \in Slots : CreateCredential(p)
    \/ \E p \in Slots : SignAndReturn(p)
    \/ \E p \in Slots : Return(p)

SpecSeq == Init /\ [][NextSeq]_vars

\* The challenge manager on its own: challenges are issued, validate is
\* called with any nonce and audience, and time passes.
IssuedNonces == { NewNonce(i) : i \in 0..(noncegen - 1) }

NextChallenge ==
    \/ \E p \in Slots, aud \in Auds : Challenge(p, aud)
    \/ \E p \in Slots, nonce \in IssuedNonces \cup {UnknownNonce}, aud \in Auds :
         ValidateStart(p, nonce, aud)
    \/ \E p \in Slots : ValidateGet(p)
    \/ \E p \in Slots : ValidateFinish(p)
    \/ \E p \in Slots : Return(p)
    \/ Tick

SpecChallenge == Init /\ [][NextChallenge]_vars

\* ---------------------------------------------------- challenge claims

\* C4: for any nonce the challenge manager issued, at most one validate call
\* ever returns (True, "ok"), whatever the interleaving of concurrent calls.
C4_AtMostOneValidateOk ==
    \A n \in DOMAIN validated : validated[n] <= 1

\* The decision validate takes on the record it read, at the time it checks.
ValidateDecision(value, aud, t) ==
    IF value = NoValue THEN "nonce not found"
    ELSE IF value.aud # aud THEN "aud mismatch"
    ELSE IF value.exp < t THEN "expired"
    ELSE "ok"

\* C6: validate decides absent -> "nonce not found", then wrong audience ->
\* "aud mismatch", then exp < now -> "expired", else (True, "ok"); it deletes
\* the stored nonce exactly when it returns (True, "ok") and leaves the store
\* unchanged otherwise.
C6_ValidateStep ==
    \A p \in Slots :
        (req[p].op = "validate" /\ req[p].pc # "done" /\ req'[p].pc = "done")
        => LET key == ChKey(req[p].loc.nonce)
               value == IF req[p].pc = "v_get" THEN RedisGet(key) ELSE req[p].loc.value
               why == ValidateDecision(value, req[p].loc.aud, now)
           IN  /\ req'[p].why = why
               /\ req'[p].ok = (why = "ok")
               /\ why = "ok" => /\ key \notin DOMAIN redis'
                                /\ \A k \in DOMAIN redis \ {key} :
                                     k \in DOMAIN redis' /\ redis'[k] = redis[k]
               /\ why # "ok" => redis' = redis

C6_ValidateOrderAndFrame == [][C6_ValidateStep]_vars

\* C6 witness: a validate with the wrong audience has returned "aud mismatch",
\* the nonce is still stored, and a validate with the right audience has
\* returned (True, "ok") for the same nonce.
C6_Witness ==
    \E p, q \in Slots :
        /\ IsDone(p, "validate") /\ req[p].why = "aud mismatch"
        /\ IsDone(q, "validate") /\ req[q].ok
        /\ req[p].loc.nonce = req[q].loc.nonce

\* ------------------------------------------------ presentation lifecycle

\* The credential the issuer's list holds at `index`, issued to the first
\* holder (main.py:71-84, storage.py:180-213).
IssuedCredential(index) ==
    [id |-> CredIdOf(IssuerDids[1], index),
     issuer |-> IssuerDids[1],
     subject |-> HolderDids[1],
     schema |-> "example:student-id-v1",
     attrs |-> [k \in {"name"} |-> "Alice"],
     status |-> [list_id |-> ListIdOf(IssuerDids[1]), index |-> index],
     issued_at |-> 0]

\* The state after one issuer, two holders and one verifier have been
\* bootstrapped, before any issuance, presentation, revocation or publication.
Registered ==
    /\ issuers = << IssuerDids[1] >>
    /\ holders = << HolderDids[1], HolderDids[2] >>
    /\ verifiers = << VerifierDids[1] >>
    /\ keys = [k \in { Kid(d, r) : d \in { IssuerDids[1], HolderDids[1], HolderDids[2],
                                          VerifierDids[1] },
                                   r \in { "sign", "agree" } } |->
                 NewKey((CASE k[1] = IssuerDids[1] -> 0
                           [] k[1] = HolderDids[1] -> 2
                           [] k[1] = HolderDids[2] -> 4
                           [] OTHER -> 6)
                        + (IF k[2] = "sign" THEN 0 ELSE 1))]
    /\ keygen = 8
    /\ revocations = {}
    /\ redis = EmptyFn
    /\ noncegen = 0
    /\ now = 0
    /\ boxes = {}
    /\ req = [p \in Slots |-> Idle]
    /\ validated = EmptyFn
    /\ accepted = {}
    /\ republished = {}
    /\ headers = [p \in Slots |-> NoRequest]

\* ... with no admin token configured.
Parties ==
    /\ Registered
    /\ settings = [issuer_admin_token |-> NoToken]

\* ... and the issuer's status list has been created by a first allocation
\* (statuslist.py:16-23).
Bootstrapped ==
    /\ Parties
    /\ statuslists = [l \in { ListIdOf(IssuerDids[1]) } |->
                        [issuer |-> IssuerDids[1], bitmap |-> << >>]]

\* ... and the issuer has issued one credential to the first holder.
InitVerify ==
    /\ Bootstrapped
    /\ credentials = { IssuedCredential(0) }

\* InitVerify is a state of Spec (with every request answered).
InitVerifyNotReached == ~(AllIdle /\ InitVerify)

NextVerify ==
    \/ \E p \in Slots, h \in SeqRange(HolderDids), c \in { x.id : x \in credentials },
          f \in RevealChoices, v \in SeqRange(VerifierDids) :
         Present(p, h, c, f, v)
    \/ \E p \in Slots, box \in boxes : VerifyStart(p, box)
    \/ \E p \in Slots : ValidateGet(p)
    \/ \E p \in Slots : ValidateFinish(p)
    \/ \E p \in Slots : RevocationCheck(p)
    \/ \E p \in Slots, c \in { x.id : x \in credentials } \cup { UnknownCredId } :
         Revoke(p, c)
    \/ \E p \in Slots, l \in PublishTargets : PublishStart(p, l)
    \/ \E p \in Slots : PublishRead(p)
    \/ \E p \in Slots : PublishWrite(p)
    \/ \E p \in Slots : Return(p)
    \/ Tick

SpecVerify == InitVerify /\ [][NextVerify]_vars

\* --------------------------------------------- claims about verification

\* Bit i of a bitmap: byte i div 8, position i mod 8.
BitAt(bitmap, i) ==
    /\ (i \div 8) + 1 <= Len(bitmap)
    /\ (bitmap[(i \div 8) + 1] \div (2 ^ (i % 8))) % 2 = 1

\* The bytes a hex document stands for.
HexVal(d) == (CHOOSE k \in 1..16 : HexDigits[k] = d) - 1

UnHex(data) == [i \in 1..Len(data) |-> HexVal(data[i][1]) * 16 + HexVal(data[i][2])]

\* C5: once verifier/verify has accepted a box, every verify of that box that
\* starts afterwards is answered 400 "challenge invalid: nonce not found".
C5_ReplayRejected ==
    \A p \in Slots :
      (IsDone(p, "verify") /\ req[p].loc.after_accept) =>
         /\ req[p].status = 400
         /\ req[p].detail = << "challenge invalid", "nonce not found" >>

C5_Witness ==
    \E p \in Slots :
      /\ IsDone(p, "verify") /\ req[p].loc.after_accept
      /\ req[p].loc.box \in accepted
      /\ req[p].status = 400

\* C7: revoke itself sets the credential's bit in the stored bitmap, so every
\* entry of revocations reads as revoked, with no publish in between.
C7_RevokeSetsBit ==
    \A e \in revocations : is_revoked(e[1], e[2])

InitPublish ==
    /\ Bootstrapped
    /\ \E mx \in 0..MaxIdx : credentials = { IssuedCredential(i) : i \in 0..mx }

NextPublish ==
    \/ \E p \in Slots, c \in credentials :
         /\ \/ << c.status.list_id, c.status.index >> \in revocations
            \/ Cardinality(revocations) < MaxRevoked
         /\ Revoke(p, c.id)
    \/ \E p \in Slots : Revoke(p, UnknownCredId)
    \/ \E p \in Slots, l \in PublishTargets : PublishStart(p, l)
    \/ \E p \in Slots : PublishRead(p)
    \/ \E p \in Slots : PublishWrite(p)
    \/ \E p \in Slots : Return(p)

SpecPublish == InitPublish /\ [][NextPublish]_vars

\* C9: a publish of a list with credentials 0..mx, begun when the set R of
\* entries was revoked, returns and stores a bitmap of ceil((mx+1)/8) bytes in
\* which the bit of every entry of R is set and every set bit is the bit of a
\* revoked entry (so bit i is set iff i is in R when no revoke ran meanwhile).
C9_PublishStep ==
    \A p \in Slots :
      (At(p, "publish", "p_write") /\ req'[p].pc = "done") =>
         LET l == req[p].loc.list_id
             returned == UnHex(req'[p].loc.data)
             stored == statuslists'[l].bitmap
             mx == MaxIndex(l, 0)
         IN  /\ req'[p].status = 200
             /\ stored = returned
             /\ Len(returned) = (mx + 8) \div 8
             /\ \A i \in 0..(8 * Len(returned) - 1) :
                  /\ << l, i >> \in req[p].loc.r0 => BitAt(returned, i)
                  /\ BitAt(returned, i) => << l, i >> \in revocations
                  /\ RevokedIn(l) = { e[2] : e \in req[p].loc.r0 } =>
                       (BitAt(returned, i) <=> << l, i >> \in req[p].loc.r0)

C9_PublishBitmapExact == [][C9_PublishStep]_vars

C9_Witness ==
    \E p \in Slots :
      /\ IsDone(p, "publish") /\ req[p].status = 200
      /\ Cardinality(req[p].loc.r0) = 2
      /\ \E e \in req[p].loc.r0 : e[2] >= 8
      /\ \E e \in req[p].loc.r0 : e[2] \in 1..7
      /\ statuslists[req[p].loc.list_id].bitmap = req[p].loc.bitmap

\* The number of bits set in a bitmap.
SetBits(bitmap) == Cardinality({ i \in 0..(8 * Len(bitmap) - 1) : BitAt(bitmap, i) })

\* C10: every revoke of an existing credential returns ok and leaves its
\* entry in revocations; a repeated revoke changes no table; a publish begun
\* afterwards shows the entry's bit, one set bit for each revoked entry.
C10_RevokeStep ==
    \A p \in Slots, c \in credentials :
      (IsIdle(p) /\ req'[p].op = "revoke" /\ req'[p].loc.cred_id = c.id) =>
         LET e == << c.status.list_id, c.status.index >> IN
           /\ req'[p].status = 200 /\ req'[p].detail = << "ok" >>
           /\ revocations' = revocations \cup {e}
           /\ e \in revocations =>
                UNCHANGED << revocations, credentials, statuslists >>

C10_PublishShows ==
    \A p \in Slots :
      (IsDone(p, "publish") /\ req[p].status = 200) =>
         /\ \A e \in req[p].loc.r0 : BitAt(req[p].loc.bitmap, e[2])
         /\ SetBits(req[p].loc.bitmap) <= Cardinality(RevokedIn(req[p].loc.list_id))
         /\ SetBits(req[p].loc.bitmap) >= Cardinality(req[p].loc.r0)

C10_RevokeIdempotent == [][C10_RevokeStep]_vars /\ []C10_PublishShows

C10_Witness ==
    \E p \in Slots, q \in Slots :
      /\ p # q
      /\ IsDone(p, "revoke") /\ IsDone(q, "revoke")
      /\ req[p].loc.cred_id = req[q].loc.cred_id
      /\ req[p].status = 200 /\ req[q].status = 200
      /\ req[q].loc.already

\* ----------------------------------------------------------- offer flow

\* The parties are bootstrapped; nothing has been issued.
InitOffer ==
    /\ Parties
    /\ statuslists = EmptyFn
    /\ credentials = {}

NextOffer ==
    \/ \E p \in Slots, offer \in OfferRequests : RegisterOffer(p, offer)
    \/ \E p \in Slots, body \in ClaimRequests : ClaimStart(p, body)
    \/ \E p \in Slots : ClaimCheck(p)
    \/ \E p \in Slots : ListSelect(p)
    \/ \E p \in Slots : ListInsert(p)
    \/ \E p \in Slots : Allocate(p)
    \/ \E p \in Slots : CreateCredential(p)
    \/ \E p \in Slots : ClaimSign(p)
    \/ \E p \in Slots : ClaimConsume(p)
    \/ \E p \in Slots : Return(p)
    \/ Tick

SpecOffer == InitOffer /\ [][NextOffer]_vars

\* The offer stored for a challenge has not expired.
OfferStored(challenge) == RedisLive(OfferKey(challenge))

\* Slot p takes a step of a wallet/claim request.
ClaimStep(p) ==
    /\ req'[p] # req[p]
    /\ req'[p].op = "claim"

\* C11: a successful wallet/claim leaves offer:<challenge> absent; the key
\* stays absent until issuer/offers registers it again; and a wallet/claim
\* that starts while it is absent returns 404 "offer not found or expired" and
\* creates no credential.
C11_OfferStep ==
    /\ \A p \in Slots :
         (ClaimStep(p) /\ req'[p].pc = "done" /\ req'[p].status = 200) =>
            ~OfferStored(req[p].loc.challenge)'
    /\ \A offer \in OfferRequests :
         (~OfferStored(offer.challenge) /\ OfferStored(offer.challenge)') =>
            \E p \in Slots : IsIdle(p) /\ req'[p].op = "offer"
    /\ \A p \in Slots :
         (ClaimStep(p) /\ IsIdle(p) /\ ~OfferStored(req'[p].loc.challenge)) =>
            /\ req'[p].pc = "done"
            /\ req'[p].status = 404
            /\ req'[p].detail = << "offer not found or expired" >>
            /\ credentials' = credentials

C11_OfferSingleUse == [][C11_OfferStep]_vars

C11_Witness ==
    \E p \in Slots :
      /\ IsDone(p, "claim") /\ req[p].status = 404
      /\ now = 0
      /\ \E c \in credentials : c.subject = req[p].loc.holder_did

\* A wallet/claim request that has inserted its credential.
ClaimInserted(p) ==
    /\ req[p].op = "claim"
    /\ \/ req[p].pc \in {"sign", "consume"}
       \/ req[p].pc = "done" /\ req[p].status = 200

\* C12: under any interleaving of wallet/claim requests at most one
\* credential is created, and no two requests both get past the insert (so at
\* most one returns a credential).
C12_AtMostOneClaimed ==
    /\ Cardinality(credentials) <= 1
    /\ \A p \in Slots, q \in Slots :
         (p # q /\ ClaimInserted(p) /\ ClaimInserted(q)) =>
            CredIdOf(req[p].loc.issuer, req[p].loc.index)
              # CredIdOf(req[q].loc.issuer, req[q].loc.index)
    /\ \A p \in Slots :
         ClaimInserted(p) =>
            \E c \in credentials :
               /\ c.id = CredIdOf(req[p].loc.issuer, req[p].loc.index)
               /\ c.subject = req[p].loc.holder_did

C12_Witness ==
    \E p \in Slots, q \in Slots :
      /\ p # q
      /\ IsDone(p, "claim") /\ req[p].status = 200
      /\ IsDone(q, "claim") /\ req[q].status = 500
      /\ req[q].loc.offer = req[p].loc.offer
      /\ now = 0

\* C13: a wallet/claim that fails has created no credential and has not
\* touched the offer: only the insert and the final delete change a table or
\* the store, and a request past its insert always returns the credential; a
\* request is rejected for missing attributes only over claims flagged true.
C13_ClaimStep ==
    \A p \in Slots :
      ClaimStep(p) =>
         /\ (req'[p].pc = "done" /\ req'[p].status # 200) =>
               /\ UNCHANGED << credentials, redis >>
               /\ ~ClaimInserted(p)
         /\ ClaimInserted(p) => ClaimInserted(p)'
         /\ (req'[p].pc # "sign" /\ req[p].pc # "consume") =>
               UNCHANGED << credentials, redis >>
         /\ (req'[p].pc = "done" /\ req'[p].status = 400
               /\ req'[p].detail[1] = "missing attributes for claims") =>
               /\ req'[p].detail[2] # {}
               /\ \A k \in req'[p].detail[2] :
                    /\ req[p].loc.offer.claims[k]
                    /\ k \notin DOMAIN req[p].loc.attributes
         /\ (/\ req[p].pc = "c_check"
             /\ \A k \in DOMAIN req[p].loc.offer.claims :
                  req[p].loc.offer.claims[k] => k \in DOMAIN req[p].loc.attributes
             /\ req'[p].pc = "done") =>
               req'[p].detail[1] # "missing attributes for claims"

C13_FailedClaimKeepsOffer == [][C13_ClaimStep]_vars

C13_Witness ==
    \E p \in Slots, q \in Slots :
      /\ IsDone(p, "claim") /\ req[p].status = 400
      /\ req[p].detail[1] = "missing attributes for claims"
      /\ IsDone(q, "claim") /\ req[q].status = 200
      /\ req[q].loc.challenge = req[p].loc.challenge
      /\ "over18" \notin DOMAIN req[q].loc.attributes

\* ------------------------------------------------ admin gate claims

\* One issuer, two holders, one verifier and one credential, with the admin
\* token either unset or configured.
InitAdmin ==
    /\ Registered
    /\ settings \in { [issuer_admin_token |-> t] : t \in { NoToken, AdminToken } }
    /\ statuslists = [l \in { ListIdOf(IssuerDids[1]) } |->
                        [issuer |-> IssuerDids[1], bitmap |-> << >>]]
    /\ credentials = { IssuedCredential(0) }

\* No request is in flight: every slot is free and holds no request.
AllQuiet == \A p \in Slots : IsIdle(p) /\ headers[p] = NoRequest

\* The admin routes serving one request at a time (solving the dependencies
\* reads only the settings, which no request changes).
NextAdmin ==
    \/ \E p \in Slots, r \in AdminRoutes, h \in HeaderChoices :
         /\ AllQuiet
         /\ r = "bootstrap_issuer" => keygen < MaxKeys
         /\ Receive(p, r, h)
    \/ \E p \in Slots : BootstrapIssuerRequest(p)
    \/ \E p \in Slots : Admitted(p, "issue") /\ IssueStart(p)
    \/ \E p \in Slots : ListSelect(p)
    \/ \E p \in Slots : ListInsert(p)
    \/ \E p \in Slots : Allocate(p)
    \/ \E p \in Slots : CreateCredential(p)
    \/ \E p \in Slots : SignAndReturn(p)
    \/ \E p \in Slots, c \in { x.id : x \in credentials } \cup { UnknownCredId } :
         Admitted(p, "revoke") /\ Revoke(p, c)
    \/ \E p \in Slots, o \in OfferRequests : Admitted(p, "offer") /\ RegisterOffer(p, o)
    \/ \E p \in Slots : Admitted(p, "reset") /\ ResetStart(p)
    \/ \E p \in Slots : ResetFlush(p)
    \/ \E p \in Slots : ResetUnlink(p)
    \/ \E p \in Slots : Return(p)

SpecAdmin == InitAdmin /\ [][NextAdmin]_vars

\* The response of a request rejected by a dependency of its route.
Rejection(route, status, detail) ==
    [op |-> route, pc |-> "done", loc |-> << >>, status |-> status, detail |-> detail]

\* C14: an issuer/issue request without an Idempotency-Key header is answered
\* 428 "Idempotency-Key header required", whatever its admin token, and its
\* arrival changes nothing that is stored: it never enters the handler body, so
\* it allocates no index, creates no status list row and stores no credential.
C14_Step ==
    \A p \in Slots :
      (headers'[p].route = "issue" /\ headers'[p].idem = NoHeader) =>
        /\ req'[p] = Rejection("issue", 428, << "Idempotency-Key header required" >>)
        /\ headers[p] = NoRequest => UNCHANGED persistent

C14_IdempotencyKeyRequired == [][C14_Step]_vars

\* An issuance that carries the configured admin token but no Idempotency-Key
\* has been answered 428.
C14_Witness ==
    \E p \in Slots :
      /\ settings.issuer_admin_token = AdminToken
      /\ headers[p].route = "issue"
      /\ headers[p].idem = NoHeader
      /\ headers[p].token = AdminToken
      /\ IsDone(p, "issue") /\ req[p].status = 428

\* A request whose X-Admin-Token is absent or differs from the configured
\* admin token.
BadToken(h) ==
    /\ settings.issuer_admin_token # NoToken
    /\ h # NoRequest
    /\ h.token # settings.issuer_admin_token

\* C20 as stated: with the admin token configured, every request for an admin
\* route with a missing or different X-Admin-Token is answered 401.
C20_BadTokenAlways401 ==
    \A p \in Slots :
      BadToken(headers[p]) =>
        req[p] = Rejection(headers[p].route, 401, << "invalid admin token" >>)

\* The answer to a request with a bad token: 428 for an issuer/issue without
\* an Idempotency-Key header, 401 otherwise.
BadTokenAnswer(h) ==
    IF h.route = "issue" /\ h.idem = NoHeader
    THEN Rejection("issue", 428, << "Idempotency-Key header required" >>)
    ELSE Rejection(h.route, 401, << "invalid admin token" >>)

\* C20 (amended): with the admin token configured, a request for an admin
\* route with a missing or different X-Admin-Token is rejected before its
\* handler runs and changes nothing that is stored; the answer is 401 "invalid
\* admin token", except that an issuer/issue request which also lacks the
\* Idempotency-Key header is answered 428.  With no admin token configured no
\* request is answered 401: whatever its X-Admin-Token, it is admitted to its
\* handler (an issuer/issue still needs its Idempotency-Key header).
C20_Step ==
    \A p \in Slots :
      /\ BadToken(headers'[p]) =>
           /\ req'[p] = BadTokenAnswer(headers'[p])
           /\ headers[p] = NoRequest => UNCHANGED persistent
      /\ (headers[p] = NoRequest /\ headers'[p] # NoRequest
            /\ settings.issuer_admin_token = NoToken) =>
           IF headers'[p].route = "issue" /\ headers'[p].idem = NoHeader
           THEN req'[p].status = 428
           ELSE req'[p] = Idle

C20_AdminGate == [][C20_Step]_vars

\* With the token configured, an admin/reset with a missing or different
\* token has been answered 401, and the credential issued before it is still
\* stored.
C20_Witness ==
    \E p \in Slots :
      /\ BadToken(headers[p])
      /\ headers[p].route = "reset"
      /\ IsDone(p, "reset") /\ req[p].status = 401
      /\ credentials # {}

\* ------------------------------------------------ presentation claims

\* The DIDs a holder/present request may name: registered parties and a DID
\* that is not registered.
PresentHolders == SeqRange(HolderDids) \cup { "did:key:zOther" }

PresentVerifiers == SeqRange(VerifierDids) \cup { "did:key:zOther" }

\* reveal_fields of a request (models.py:53-57): none, one attribute, an
\* attribute with a field the credential lacks, all attributes.
RevealLists == { << >>, << "name" >>, << "gpa", "status" >>, << "name", "gpa" >> }

\* One issuer, two holders and two verifiers have been bootstrapped (in the
\* order issuer, holders, verifiers) and the issuer has issued one credential
\* with two attributes to the first holder.
InitPresent ==
    /\ issuers = << IssuerDids[1] >>
    /\ holders = << HolderDids[1], HolderDids[2] >>
    /\ verifiers = << VerifierDids[1], VerifierDids[2] >>
    /\ keys = [k \in { Kid(d, r) : d \in { IssuerDids[1], HolderDids[1], HolderDids[2],
                                          VerifierDids[1], VerifierDids[2] },
                                   r \in { "sign", "agree" } } |->
                 NewKey((CASE k[1] = IssuerDids[1] -> 0
                           [] k[1] = HolderDids[1] -> 2
                           [] k[1] = HolderDids[2] -> 4
                           [] k[1] = VerifierDids[1] -> 6
                           [] OTHER -> 8)
                        + (IF k[2] = "sign" THEN 0 ELSE 1))]
    /\ keygen = 10
    /\ statuslists = [l \in { ListIdOf(IssuerDids[1]) } |->
                        [issuer |-> IssuerDids[1], bitmap |-> << >>]]
    /\ credentials = { [IssuedCredential(0) EXCEPT
                          !.attrs = [k \in {"name", "gpa"} |->
                                       IF k = "name" THEN "Alice" ELSE "3.9"]] }
    /\ revocations = {}
    /\ redis = EmptyFn
    /\ noncegen = 0
    /\ now = 0
    /\ boxes = {}
    /\ req = [p \in Slots |-> Idle]
    /\ validated = EmptyFn
    /\ accepted = {}
    /\ republished = {}
    /\ settings = [issuer_admin_token |-> NoToken]
    /\ headers = [p \in Slots |-> NoRequest]

\* Presentation, verification, revocation and publication, one request at a
\* time, while the clock runs.
NextPresent ==
    \/ \E p \in Slots, h \in PresentHolders,
          c \in { x.id : x \in credentials } \cup { UnknownCredId },
          f \in RevealLists, v \in PresentVerifiers :
         AllIdle /\ Present(p, h, c, f, v)
    \/ \E p \in Slots, box \in boxes : AllIdle /\ VerifyStart(p, box)
    \/ \E p \in Slots : ValidateGet(p)
    \/ \E p \in Slots : ValidateFinish(p)
    \/ \E p \in Slots : RevocationCheck(p)
    \/ \E p \in Slots, c \in { x.id : x \in credentials } : AllIdle /\ Revoke(p, c)
    \/ \E p \in Slots, l \in PublishTargets : AllIdle /\ PublishStart(p, l)
    \/ \E p \in Slots : PublishRead(p)
    \/ \E p \in Slots : PublishWrite(p)
    \/ \E p \in Slots : Return(p)
    \/ Tick

SpecPresent == InitPresent /\ [][NextPresent]_vars

\* C15: a holder/present request is answered with a box only when holder_did
\* and verifier_did are registered and the credential is stored with subject
\* equal to holder_did; any other request is answered 400, draws no nonce and
\* adds no box.  Boxes come from nowhere else, so every box that exists
\* carries a credential whose subject is the holder that asked for it.
C15_Step ==
    /\ \A p \in Slots :
         (IsIdle(p) /\ req'[p].op = "present") =>
           LET b == req'[p].loc
               eligible ==
                 /\ \E i \in 1..Len(holders) : holders[i] = b.holder_did
                 /\ \E i \in 1..Len(verifiers) : verifiers[i] = b.verifier_did
                 /\ \E c \in credentials : c.id = b.cred_id /\ c.subject = b.holder_did
           IN  IF eligible
               THEN /\ req'[p].status = 200
                    /\ boxes' = boxes \cup { b.box }
                    /\ b.box.cred.id = b.cred_id
                    /\ b.box.cred.subject = b.holder_did
                    /\ b.box.aud = b.verifier_did
               ELSE /\ req'[p].status = 400
                    /\ UNCHANGED << redis, noncegen, boxes >>
    /\ boxes' # boxes =>
         \E p \in Slots : IsIdle(p) /\ req'[p].op = "present" /\ req'[p].status = 200

C15_PresentOnlyOwnCredential == [][C15_Step]_vars

\* The second holder, registered, asked to present the first holder's
\* credential to a registered verifier and was refused: no nonce was drawn.
C15_Witness ==
    \E p \in Slots :
      /\ IsDone(p, "present") /\ req[p].status = 400
      /\ req[p].loc.holder_did = HolderDids[2]
      /\ req[p].loc.verifier_did = VerifierDids[1]
      /\ \E c \in credentials : c.id = req[p].loc.cred_id /\ c.subject = HolderDids[1]
      /\ noncegen = 0 /\ boxes = {}

\* {k: attrs[k] for k in reveal_fields if k in attrs}
Disclosure(attrs, reveal_fields) ==
    [k \in DOMAIN attrs \cap { reveal_fields[i] : i \in 1..Len(reveal_fields) } |->
       attrs[k]]

\* A box is built: what it reveals is the disclosure of the stored
\* credential's attributes for the request's reveal_fields (verify answers
\* with the box's revealed attributes as "disclosed", oidc_like.py:91).
C16_BuildStep ==
    \A p \in Slots :
      (IsIdle(p) /\ req'[p].op = "present" /\ req'[p].status = 200) =>
        \E c \in credentials :
          /\ c.id = req'[p].loc.cred_id
          /\ req'[p].loc.box.cred.revealed =
               Disclosure(c.attrs, req'[p].loc.reveal_fields)

\* The box is verified for the first time, before the challenge drawn for it
\* expires, and its credential is stored and not revoked.
FirstTimelyVerify(box) ==
    /\ box \in boxes
    /\ box \notin accepted
    /\ now < box.exp
    /\ \E c \in credentials : c.id = box.cred.id
    /\ << box.cred.status.list_id, box.cred.status.index >> \notin revocations

\* A verification is answered in this step, with "verified OK" or not.
VerifyAnswered(p) == req[p].pc # "done" /\ req'[p].op = "verify" /\ req'[p].pc = "done"

VerifiedOK(p) ==
    /\ req'[p].status = 200
    /\ req'[p].detail = << "verified OK" >>
    /\ req'[p].loc.box \in accepted'

\* C16 as stated: the box built for any registered verifier verifies.
C16_AnyVerifierStep ==
    /\ C16_BuildStep
    /\ \A p \in Slots :
         (VerifyAnswered(p) /\ FirstTimelyVerify(req'[p].loc.box)) => VerifiedOK(p)

C16_VerifiesForAnyVerifier == [][C16_AnyVerifierStep]_vars

\* C16 (amended): for a stored, unrevoked credential with attributes attrs and
\* any list reveal_fields, the box built for a registered verifier reveals
\* exactly {k: attrs[k] for k in reveal_fields if k in attrs}, and when
\* verifier/verify selects that verifier (it decrypts with the key of the
\* verifier get_default_verifier returns, which is that verifier for certain
\* only when no other verifier is registered) the first verification, made
\* before the challenge expires, is answered ok with "verified OK" and those
\* attributes as disclosed.
C16_DefaultVerifierStep ==
    /\ C16_BuildStep
    /\ \A p \in Slots :
         (/\ VerifyAnswered(p)
          /\ FirstTimelyVerify(req'[p].loc.box)
          /\ req'[p].loc.box.aud = req'[p].loc.verifier) => VerifiedOK(p)

C16_VerifiesForDefaultVerifier == [][C16_DefaultVerifierStep]_vars

\* A box revealing "gpa" alone, built from a request for "gpa" and "status"
\* (which the credential lacks), has been verified OK: "name" is not disclosed.
C16_Witness ==
    \E p \in Slots :
      /\ IsDone(p, "verify") /\ req[p].status = 200
      /\ req[p].loc.box.aud = VerifierDids[1]
      /\ DOMAIN req[p].loc.box.cred.revealed = { "gpa" }
      /\ req[p].loc.box.cred.revealed["gpa"] = "3.9"

\* ------------------------------------------------ verification order

\* The verification in slot p is answered in this step with this rejection.
RejectedWith(p, what) ==
    /\ req[p].pc # "done"
    /\ req'[p].op = "verify" /\ req'[p].pc = "done"
    /\ req'[p].status = 400 /\ req'[p].detail[1] = what

\* C17: verify checks the challenge first, then revocation, then the Merkle
\* proofs: an answer about revocation or the proofs is given only after the
\* challenge validated, and a challenge that fails is what the answer reports,
\* revoked credential or not.  A verification rejected with "challenge
\* invalid: ..." or "credential revoked" leaves the presentation's nonce
\* absent from the store; an absent nonce stays absent, and a verification
\* that finds it absent is rejected: no verification of that presentation
\* requested later is accepted.
C17_Step ==
    /\ \A p \in Slots :
         /\ (req[p].op = "verify" /\ req[p].pc \in {"v_get", "v_check"}
               /\ req'[p].pc = "done") =>
              RejectedWith(p, "challenge invalid")
         /\ (req[p].pc # "done" /\ req'[p].op = "verify" /\ req'[p].pc = "done"
               /\ req'[p].detail[1] \in {"credential revoked", "merkle proof failed",
                                         "verified OK"}) =>
              /\ req[p].op = "verify" /\ req[p].pc = "revcheck"
              /\ req'[p].detail[1] = "credential revoked" <=>
                   is_revoked(req[p].loc.box.cred.status.list_id,
                              req[p].loc.box.cred.status.index)
         /\ (RejectedWith(p, "challenge invalid") \/ RejectedWith(p, "credential revoked")) =>
              ~RedisLive(ChKey(req[p].loc.nonce))'
         /\ (req[p].op = "verify" /\ req[p].pc = "v_get" /\ req'[p] # req[p]
               /\ ~RedisLive(ChKey(req[p].loc.nonce))) =>
              RejectedWith(p, "challenge invalid")
         /\ (req[p].pc # "revcheck" /\ req'[p].op = "verify" /\ req'[p].pc = "revcheck") =>
              req[p].op = "verify" /\ req[p].pc = "v_check"
    /\ \A box \in boxes : ~RedisLive(ChKey(box.nonce)) => ~RedisLive(ChKey(box.nonce))'

C17_VerifyOrderAndFinality == [][C17_Step]_vars

\* A presentation of a credential that is revoked in the published bitmap has
\* been rejected for its challenge, not for the revocation.
C17_Witness ==
    \E p \in Slots :
      /\ IsDone(p, "verify") /\ req[p].status = 400
      /\ req[p].detail[1] = "challenge invalid"
      /\ is_revoked(req[p].loc.box.cred.status.list_id,
                    req[p].loc.box.cred.status.index)

\* ---------------------------------------------------------- reset claims

\* storage.list_credentials_for_holder: the credentials whose subject is did
list_credentials_for_holder(did) == { c \in credentials : c.subject = did }

\* Bootstrap, issuance, revocation, challenges, offers and the reset, one
\* request at a time, from the state with one credential issued.
NextReset ==
    \/ AllIdle /\ keygen < MaxKeys /\ BootstrapIssuer
    \/ AllIdle /\ keygen < MaxKeys /\ BootstrapHolder
    \/ AllIdle /\ keygen < MaxKeys /\ BootstrapVerifier
    \/ \E p \in Slots : AllIdle /\ IssueStart(p)
    \/ \E p \in Slots : ListSelect(p)
    \/ \E p \in Slots : ListInsert(p)
    \/ \E p \in Slots : Allocate(p)
    \/ \E p \in Slots : CreateCredential(p)
    \/ \E p \in Slots : SignAndReturn(p)
    \/ \E p \in Slots, c \in { x.id : x \in credentials } : AllIdle /\ Revoke(p, c)
    \/ \E p \in Slots, a \in Auds : AllIdle /\ Challenge(p, a)
    \/ \E p \in Slots, o \in OfferRequests : AllIdle /\ RegisterOffer(p, o)
    \/ \E p \in Slots : AllIdle /\ ResetStart(p)
    \/ \E p \in Slots : ResetFlush(p)
    \/ \E p \in Slots : ResetUnlink(p)
    \/ \E p \in Slots : Return(p)

SpecReset == InitVerify /\ [][NextReset]_vars

\* The issuer in the table was bootstrapped after a reset: its signing key
\* was generated after the keys of the initial parties.
Rebootstrapped(issuer_did) ==
    /\ Kid(issuer_did, "sign") \in DOMAIN keys
    /\ keys[Kid(issuer_did, "sign")][2] >= 8

\* C18: when admin/reset is answered, the tables of parties, credentials,
\* revocations and status lists are empty, the expiring store holds no
\* challenge and no offer, and the key directory holds no key.  An issuance
\* answered 200 for an issuer bootstrapped after the reset has index 0, and
\* the list of its subject's credentials is exactly that one credential.
C18_Step ==
    \A p \in Slots :
      /\ (At(p, "reset", "unlink") /\ (req'[p].pc = "done")) =>
           /\ req'[p].status = 200
           /\ issuers' = << >> /\ holders' = << >> /\ verifiers' = << >>
           /\ credentials' = {} /\ revocations' = {}
           /\ DOMAIN statuslists' = {}
           /\ DOMAIN redis' = {}
           /\ DOMAIN keys' = {}
      /\ (At(p, "issue", "sign") /\ req'[p].pc = "done" /\ req'[p].status = 200
            /\ Rebootstrapped(req[p].loc.issuer)) =>
           /\ req[p].loc.index = 0
           /\ \E c \in credentials' :
                /\ c.status.index = 0 /\ c.issuer = req[p].loc.issuer
                /\ list_credentials_for_holder(req[p].loc.subject)' = { c }

C18_ResetWipesEverything == [][C18_Step]_vars

\* After a reset that wiped parties, a credential, a revocation and an offer,
\* an issuer and a holder were bootstrapped again and an issuance to the new
\* holder was answered 200.
C18_Witness ==
    \E p \in Slots :
      /\ IsDone(p, "issue") /\ req[p].status = 200
      /\ Rebootstrapped(req[p].loc.issuer)
      /\ req[p].loc.subject \in SeqRange(holders)
      /\ keys[Kid(req[p].loc.subject, "sign")][2] >= 8
      /\ Cardinality(list_credentials_for_holder(req[p].loc.subject)) = 1

\* ------------------------------------------------------------ key claims

\* Presentation and verification with a reset and a verifier bootstrap
\* running concurrently: a verifier whose row is inserted while a reset is
\* between its truncate and its unlink loop is left without key files.
NextKeys ==
    \/ \E p \in Slots, f \in RevealChoices :
         Present(p, HolderDids[1], CredIdOf(IssuerDids[1], 0), f, VerifierDids[1])
    \/ \E p \in Slots, box \in boxes : keygen < MaxKeys /\ VerifyStart(p, box)
    \/ \E p \in Slots : VerifyKeygen(p)
    \/ \E p \in Slots : ValidateGet(p)
    \/ \E p \in Slots : ValidateFinish(p)
    \/ \E p \in Slots : RevocationCheck(p)
    \/ keygen < MaxKeys /\ BootstrapVerifier
    \/ \E p \in Slots : ResetStart(p)
    \/ \E p \in Slots : ResetFlush(p)
    \/ \E p \in Slots : ResetUnlink(p)
    \/ \E p \in Slots : Return(p)

SpecKeys == InitVerify /\ [][NextKeys]_vars

\* C19: a lazy key generation never replaces a key that is stored: when two
\* verifications both find the agreement key absent and both generate one, the
\* key saved first is kept and the other one is discarded.
C19_LazyStep ==
    \A p \in Slots :
      (At(p, "verify", "v_keygen") /\ req'[p] # req[p]) =>
        \A kid \in DOMAIN keys : keys'[kid] = keys[kid]

C19_KeyNeverReplaced == [][C19_LazyStep]_vars

\* ------------------------------------------------- publication claims

\* C21: a publish that begins after a revoke of its list has committed is
\* answered 200, and the bitmap it returns and the bitmap it leaves stored
\* have the revoked index's bit set.
C21_Step ==
    \A p \in Slots :
      (req[p].op = "publish" /\ req[p].pc # "done" /\ req'[p].pc = "done") =>
        /\ req'[p].status = 200
        /\ \A e \in req[p].loc.r0 :
             /\ BitAt(UnHex(req'[p].loc.data), e[2])
             /\ is_revoked(e[1], e[2])'

C21_PublishObservesRevokes == [][C21_Step]_vars

\* A publish begun after one revoke, with a second revoke committing while it
\* ran, has been answered and the first entry reads as revoked.
C21_Witness ==
    \E p \in Slots :
      /\ IsDone(p, "publish") /\ req[p].status = 200
      /\ Cardinality(req[p].loc.r0) = 1
      /\ Cardinality(revocations) = 2
      /\ \A e \in req[p].loc.r0 : is_revoked(e[1], e[2])

\* C22: once a revoke has committed and a publish begun afterwards has
\* completed, is_revoked is true for the revoked entry in every later state,
\* whatever other publishes of the list are in flight or complete later.
C22_RevocationMonotonic ==
    \A e \in republished : is_revoked(e[1], e[2])

\* C23: in every state the stored bitmap of each status list that holds
\* credentials has ceil((max_index + 1) / 8) bytes, max_index being the
\* largest index of a credential of the list; is_revoked is false for an index
\* beyond the stored bitmap and for a list without a row.
C23_BitmapLength ==
    /\ \A l \in DOMAIN statuslists :
         LET idxs == { c.status.index : c \in { d \in credentials : d.status.list_id = l } }
         IN  idxs # {} =>
               \E mx \in idxs :
                 /\ \A i \in idxs : i <= mx
                 /\ 8 * Len(statuslists[l].bitmap) >= mx + 1
                 /\ 8 * Len(statuslists[l].bitmap) < mx + 1 + 8
    /\ \A l \in DOMAIN statuslists :
         ~is_revoked(l, 8 * Len(statuslists[l].bitmap))
    /\ ~is_revoked(ListIdOf("did:key:zOther"), 0)

\* ---------------------------------------------------- default parties

\* C24: with several verifiers stored, verifier/verify always decrypts with
\* the key of the same verifier, the first one bootstrapped.
C24_Step ==
    \A p \in Slots :
      (IsIdle(p) /\ req'[p].op = "verify" /\ Len(verifiers) > 0) =>
        req'[p].loc.verifier = verifiers[1]

C24_DefaultIsFirstBootstrapped == [][C24_Step]_vars

\* ------------------------------------------------------- frame claims

\* Every operation but the reset, one request after another, from the state
\* in which the parties are bootstrapped and nothing has been issued.
NextFrame ==
    \/ \E p \in Slots : AllIdle /\ IssueStart(p)
    \/ \E p \in Slots : ListSelect(p)
    \/ \E p \in Slots : ListInsert(p)
    \/ \E p \in Slots : Allocate(p)
    \/ \E p \in Slots : CreateCredential(p)
    \/ \E p \in Slots : SignAndReturn(p)
    \/ \E p \in Slots, o \in OfferRequests : AllIdle /\ RegisterOffer(p, o)
    \/ \E p \in Slots, b \in ClaimRequests : AllIdle /\ ClaimStart(p, b)
    \/ \E p \in Slots : ClaimCheck(p)
    \/ \E p \in Slots : ClaimSign(p)
    \/ \E p \in Slots : ClaimConsume(p)
    \/ \E p \in Slots, c \in { x.id : x \in credentials } \cup { UnknownCredId } :
         AllIdle /\ Revoke(p, c)
    \/ \E p \in Slots, l \in PublishTargets : AllIdle /\ PublishStart(p, l)
    \/ \E p \in Slots : PublishRead(p)
    \/ \E p \in Slots : PublishWrite(p)
    \/ \E p \in Slots, a \in Auds : AllIdle /\ Challenge(p, a)
    \/ \E p \in Slots, c \in { x.id : x \in credentials }, f \in RevealChoices :
         AllIdle /\ Present(p, HolderDids[1], c, f, VerifierDids[1])
    \/ \E p \in Slots, box \in boxes : AllIdle /\ VerifyStart(p, box)
    \/ \E p \in Slots : ValidateGet(p)
    \/ \E p \in Slots : ValidateFinish(p)
    \/ \E p \in Slots : RevocationCheck(p)
    \/ \E p \in Slots : Return(p)

SpecFrame == InitOffer /\ [][NextFrame]_vars

\* The request in slot p takes a step of one of these operations.
StepOf(p, ops) ==
    /\ req'[p] # req[p]
    /\ req[p].op \in ops \/ (IsIdle(p) /\ req'[p].op \in ops)

\* C25: outside the reset every stored credential stays stored, unchanged;
\* revoke, publish, present, verify, challenge and offer requests leave the
\* credentials table as it is; a revoke changes nothing but the revocations
\* table, and a revoke of an unknown cred_id is answered 404 and changes no
\* table at all.
C25_Step ==
    /\ credentials \subseteq credentials'
    /\ \A p \in Slots :
         /\ StepOf(p, {"revoke", "publish", "present", "verify", "challenge", "offer"}) =>
              UNCHANGED credentials
         /\ (IsIdle(p) /\ req'[p].op = "revoke") =>
              /\ UNCHANGED << issuers, holders, verifiers, credentials, statuslists,
                              redis, keys, boxes >>
              /\ (\A c \in credentials : c.id # req'[p].loc.cred_id) =>
                   /\ req'[p].status = 404
                   /\ req'[p].detail = << "credential not found" >>
                   /\ UNCHANGED revocations

C25_CredentialsFrame == [][C25_Step]_vars

\* With a credential stored and revoked, a revoke of an unknown cred_id has
\* been answered 404.
C25_Witness ==
    \E p \in Slots :
      /\ IsDone(p, "revoke") /\ req[p].status = 404
      /\ credentials # {} /\ revocations # {}

\* ------------------------------------------------------- expiry claims

\* The clock of the expiry specification runs for MaxHorizon steps.
MaxHorizon == 4

Horizon == MaxHorizon * TickStep

\* utils.py:13-14  now_ts: time advances
Elapse ==
    /\ now < Horizon
    /\ now' = now + TickStep
    /\ UNCHANGED << issuers, holders, verifiers, credentials, revocations,
                    statuslists, redis, keys, keygen, noncegen, boxes, req, hist, gate >>

\* Challenges, validations, offers and claims, one request after another
\* (all in the first slot), while time advances; a key is created only when its time to live ends
\* within the horizon.
NextExpiry ==
    \/ \E p \in {1}, aud \in Auds :
         AllIdle /\ now + ChallengeTTL <= Horizon /\ Challenge(p, aud)
    \/ \E p \in {1}, nonce \in IssuedNonces \cup {UnknownNonce}, aud \in Auds :
         AllIdle /\ ValidateStart(p, nonce, aud)
    \/ \E p \in {1} : ValidateGet(p)
    \/ \E p \in {1} : ValidateFinish(p)
    \/ \E p \in {1}, offer \in OfferRequests :
         /\ AllIdle
         /\ now + PyOr(offer.ttl_seconds, DefaultOfferTTL) <= Horizon
         /\ RegisterOffer(p, offer)
    \/ \E p \in {1}, body \in ClaimRequests : AllIdle /\ ClaimStart(p, body)
    \/ \E p \in {1} : ClaimCheck(p)
    \/ \E p \in {1} : ListSelect(p)
    \/ \E p \in {1} : ListInsert(p)
    \/ \E p \in {1} : Allocate(p)
    \/ \E p \in {1} : CreateCredential(p)
    \/ \E p \in {1} : ClaimSign(p)
    \/ \E p \in {1} : ClaimConsume(p)
    \/ \E p \in {1} : Return(p)
    \/ Elapse

\* Time advances: the clock is not held back for ever.
SpecExpiry == InitOffer /\ [][NextExpiry]_vars /\ WF_vars(Elapse)

\* The keys the expiring store can hold.
StoreKeys ==
    { ChKey(NewNonce(n)) : n \in 0..(MaxNonces - 1) }
      \cup { OfferKey(o.challenge) : o \in OfferRequests }

\* A validate call returns (True, "ok").
C26_ValidateOk(p) ==
    /\ req[p].op = "validate" /\ req[p].pc = "v_check"
    /\ req'[p].pc = "done" /\ req'[p].ok

C26_Step ==
    /\ \A p \in Slots :
         C26_ValidateOk(p) =>
           /\ now <= req[p].loc.value.exp
           /\ ~RedisLive(ChKey(req[p].loc.nonce))'
    /\ \A k \in StoreKeys :
         (~RedisLive(k) /\ RedisLive(k)') =>
           redis'[k].expire_at =
             now + (IF k[1] = "ch" THEN ChallengeTTL
                    ELSE PyOr(redis'[k].val.ttl_seconds, DefaultOfferTTL))

\* C26: while time advances, every challenge nonce and every offer that is
\* stored is later absent from the expiring store, by its successful use or
\* at the end of its time to live (300 s for a challenge, the offer's
\* ttl_seconds or 600 s for an offer); and no validate call returns ok for a
\* nonce later than its exp.
C26_EventuallyAbsent ==
    /\ \A k \in StoreKeys : RedisLive(k) ~> ~RedisLive(k)
    /\ [][C26_Step]_vars

\* A nonce left unused and an offer left unclaimed have both expired, and
\* another nonce was used by a validate call that returned ok.
C26_Witness ==
    /\ \E n \in IssuedNonces :
         ChKey(n) \in DOMAIN redis /\ ~RedisLive(ChKey(n))
    /\ \E o \in OfferRequests :
         OfferKey(o.challenge) \in DOMAIN redis /\ ~RedisLive(OfferKey(o.challenge))
    /\ \E n \in DOMAIN validated : ChKey(n) \notin DOMAIN redis

\* ------------------------------------------------- soundness of bitmaps

\* C27: in every state, every bit set in a stored bitmap is the index of a
\* row of revocations for that list, every row of revocations carries the
\* (list_id, index) of a stored credential, and so is_revoked is true of no
\* stored credential that was not revoked.
C27_BitmapSound ==
    /\ \A l \in DOMAIN statuslists :
         \A i \in 0..(8 * Len(statuslists[l].bitmap) - 1) :
           BitAt(statuslists[l].bitmap, i) => << l, i >> \in revocations
    /\ \A e \in revocations :
         \E c \in credentials : c.status.list_id = e[1] /\ c.status.index = e[2]
    /\ \A c \in credentials :
         is_revoked(c.status.list_id, c.status.index) =>
           << c.status.list_id, c.status.index >> \in revocations

\* A published bitmap has a bit set while another stored credential of the
\* list, not revoked, reads as not revoked.
C27_Witness ==
    /\ \E l \in DOMAIN statuslists : SetBits(statuslists[l].bitmap) > 0
    /\ \E c \in credentials :
         /\ << c.status.list_id, c.status.index >> \notin revocations
         /\ c.status.list_id \in DOMAIN statuslists
         /\ ~is_revoked(c.status.list_id, c.status.index)

\* ------------------------------------------------------ absent key files

\* Issuance, presentation, verification, the registration of a verifier and
\* the reset, two requests at a time.
NextSign ==
    \/ \E p \in Slots : IssueStart(p)
    \/ \E p \in Slots : ListSelect(p)
    \/ \E p \in Slots : ListInsert(p)
    \/ \E p \in Slots : Allocate(p)
    \/ \E p \in Slots : CreateCredential(p)
    \/ \E p \in Slots : keygen < MaxKeys /\ SignAndReturn(p)
    \/ \E p \in Slots, f \in RevealChoices :
         Present(p, HolderDids[1], CredIdOf(IssuerDids[1], 0), f, VerifierDids[1])
    \/ \E p \in Slots, box \in boxes : keygen < MaxKeys /\ VerifyStart(p, box)
    \/ \E p \in Slots : VerifyKeygen(p)
    \/ \E p \in Slots : ValidateGet(p)
    \/ \E p \in Slots : ValidateFinish(p)
    \/ \E p \in Slots : RevocationCheck(p)
    \/ keygen < MaxKeys /\ BootstrapVerifier
    \/ \E p \in Slots : ResetStart(p)
    \/ \E p \in Slots : ResetFlush(p)
    \/ \E p \in Slots : ResetUnlink(p)
    \/ \E p \in Slots : Return(p)

SpecSign == InitOffer /\ [][NextSign]_vars

\* C28: a missing key file is handled per role. Signing a credential while
\* the issuer's #sign key is absent fails and stores no key; building a
\* presentation while the verifier's #agree key is absent fails, with no key
\* stored and no presentation built; and outside the registration of a party
\* an #agree key comes to be stored only in the decryption of a
\* verification.
C28_Step ==
    /\ \A p \in Slots :
         (/\ At(p, "issue", "sign") /\ req'[p] # req[p]
          /\ Kid(req[p].loc.issuer, "sign") \notin DOMAIN keys) =>
           /\ req'[p].status # 200
           /\ UNCHANGED keys
    /\ \A p \in Slots :
         (/\ IsIdle(p) /\ req'[p].op = "present"
          /\ get_holder_by_did(req'[p].loc.holder_did)
          /\ get_verifier_by_did(req'[p].loc.verifier_did)
          /\ OwnedBy(get_credential(req'[p].loc.cred_id), req'[p].loc.holder_did)
          /\ Kid(req'[p].loc.verifier_did, "agree") \notin DOMAIN keys) =>
           /\ req'[p].status = 500
           /\ req'[p].detail = << "no agreement key available" >>
           /\ UNCHANGED << keys, boxes >>
    /\ \A kid \in DOMAIN keys' \ DOMAIN keys :
         (kid[2] = "agree" /\ verifiers' = verifiers /\ holders' = holders) =>
           \E p \in Slots : At(p, "verify", "v_keygen") /\ req'[p] # req[p]

C28_KeyAbsencePerRole == [][C28_Step]_vars

====
